---- MODULE Spec2Model ----
(***************************************************************************)
(* State-machine model of the data pipeline (scripts/build-derived): the   *)
(* incidence aggregation, the recipe classification and aggregation, the   *)
(* finalize step and the join, together with the pure helpers they call.   *)
(*                                                                         *)
(* JavaScript values are tagged records: Undef, Null, Str(s), Num(n), NaN, *)
(* Inf(sign) and Frac(n, d) for a quotient that is not an integer.         *)
(* Strings are TLA+ strings; Len, SubSeq and \o act on them character by   *)
(* character, so trimming, lower-casing, substring tests and the regular   *)
(* expressions of the source are computed, not assumed.                    *)
(***************************************************************************)
EXTENDS Integers, Sequences, FiniteSets, TLC

(***************************************************************************)
(* Bounds of the model.                                                    *)
(***************************************************************************)
\* Total number of input rows (over all four source tables) of one run.
MaxRows == 3

(***************************************************************************)
(* JavaScript values.                                                      *)
(***************************************************************************)
Undef == [t |-> "undefined"]
Null == [t |-> "null"]
NaN == [t |-> "nan"]
Str(s) == [t |-> "str", s |-> s]
Num(n) == [t |-> "num", n |-> n]
Inf(sign) == [t |-> "inf", sign |-> sign]
Bool(b) == [t |-> "bool", b |-> b]

\* x == null  (true of null and undefined)
IsNullish(v) == v.t \in {"null", "undefined"}

\* a ?? b
Coalesce(a, b) == IF IsNullish(a) THEN b ELSE a

RECURSIVE Gcd(_, _)
Gcd(a, b) == IF b = 0 THEN a ELSE Gcd(b, a % b)

Abs(n) == IF n < 0 THEN -n ELSE n

\* The exact quotient n / d of two integers (d # 0) as a JavaScript number:
\* an integer when d divides n, otherwise a fraction in lowest terms with a
\* positive denominator.
Frac(n, d) ==
  LET g == Gcd(Abs(n), Abs(d))
      sn == IF d < 0 THEN -(n \div g) ELSE n \div g
      sd == Abs(d) \div g
  IN IF sd = 1 THEN Num(sn) ELSE [t |-> "frac", n |-> sn, d |-> sd]

(***************************************************************************)
(* Strings.                                                                *)
(***************************************************************************)
LowerLetters == "abcdefghijklmnopqrstuvwxyz"
UpperLetters == "ABCDEFGHIJKLMNOPQRSTUVWXYZ"
Digits == "0123456789"
WhiteSpace == {" ", "\t", "\n", "\r"}

Ch(s, i) == SubSeq(s, i, i)
CharsOf(s) == {Ch(s, i) : i \in 1..Len(s)}
IndexIn(alphabet, c) == CHOOSE i \in 1..Len(alphabet) : Ch(alphabet, i) = c

LowerSet == CharsOf(LowerLetters)
UpperSet == CharsOf(UpperLetters)
DigitSet == CharsOf(Digits)

\* String.prototype.includes
Includes(s, sub) ==
  \E i \in 1..(Len(s) - Len(sub) + 1) : SubSeq(s, i, i + Len(sub) - 1) = sub

\* String.prototype.startsWith at position i (1-based)
StartsAt(s, i, sub) ==
  i + Len(sub) - 1 <= Len(s) /\ SubSeq(s, i, i + Len(sub) - 1) = sub

RECURSIVE TrimStart(_)
TrimStart(s) ==
  IF Len(s) > 0 /\ Ch(s, 1) \in WhiteSpace THEN TrimStart(SubSeq(s, 2, Len(s))) ELSE s

RECURSIVE TrimEnd(_)
TrimEnd(s) ==
  IF Len(s) > 0 /\ Ch(s, Len(s)) \in WhiteSpace
  THEN TrimEnd(SubSeq(s, 1, Len(s) - 1)) ELSE s

\* String.prototype.trim
Trim(s) == TrimEnd(TrimStart(s))

LowerCh(c) == IF c \in UpperSet THEN Ch(LowerLetters, IndexIn(UpperLetters, c)) ELSE c

\* String.prototype.toLowerCase
RECURSIVE ToLowerCase(_)
ToLowerCase(s) ==
  IF s = "" THEN "" ELSE LowerCh(Ch(s, 1)) \o ToLowerCase(SubSeq(s, 2, Len(s)))

\* s.replace(/sub/g, '') for a literal sub
RECURSIVE RemoveAll(_, _)
RemoveAll(s, sub) ==
  IF s = "" THEN ""
  ELSE IF StartsAt(s, 1, sub) THEN RemoveAll(SubSeq(s, Len(sub) + 1, Len(s)), sub)
  ELSE Ch(s, 1) \o RemoveAll(SubSeq(s, 2, Len(s)), sub)

\* s.replace(/[^a-z\s]/g, ' ')
RECURSIVE NonLettersToSpace(_)
NonLettersToSpace(s) ==
  IF s = "" THEN ""
  ELSE (IF Ch(s, 1) \in LowerSet \cup WhiteSpace THEN Ch(s, 1) ELSE " ")
       \o NonLettersToSpace(SubSeq(s, 2, Len(s)))

\* s.replace(/\s+/g, ' ')
RECURSIVE CollapseSpaces(_)
CollapseSpaces(s) ==
  IF s = "" THEN ""
  ELSE IF Ch(s, 1) \in WhiteSpace
       THEN " " \o CollapseSpaces(TrimStart(s))
       ELSE Ch(s, 1) \o CollapseSpaces(SubSeq(s, 2, Len(s)))

\* s.split(sep) for a one-character separator
RECURSIVE Split(_, _)
Split(s, sep) ==
  IF ~Includes(s, sep) THEN <<s>>
  ELSE LET i == CHOOSE k \in 1..Len(s) :
                  Ch(s, k) = sep /\ \A j \in 1..(k - 1) : Ch(s, j) # sep
       IN <<SubSeq(s, 1, i - 1)>> \o Split(SubSeq(s, i + 1, Len(s)), sep)

\* The order of String.prototype.localeCompare on the strings of the model:
\* letters compare case-insensitively, ties resolved lower case first.
CharRank(c) ==
  IF c \in LowerSet THEN 100 + 2 * IndexIn(LowerLetters, c)
  ELSE IF c \in UpperSet THEN 101 + 2 * IndexIn(UpperLetters, c)
  ELSE IF c \in DigitSet THEN 50 + IndexIn(Digits, c)
  ELSE IF c = " " THEN 1
  ELSE IF c = "-" THEN 2
  ELSE IF c = "&" THEN 3
  ELSE 4

BaseRank(c) == IF c \in UpperSet THEN CharRank(c) - 1 ELSE CharRank(c)

RECURSIVE LessBy(_, _, _)
LessBy(a, b, useBase) ==
  IF a = "" THEN b # ""
  ELSE IF b = "" THEN FALSE
  ELSE LET ra == IF useBase THEN BaseRank(Ch(a, 1)) ELSE CharRank(Ch(a, 1))
           rb == IF useBase THEN BaseRank(Ch(b, 1)) ELSE CharRank(Ch(b, 1))
       IN IF ra # rb THEN ra < rb
          ELSE LessBy(SubSeq(a, 2, Len(a)), SubSeq(b, 2, Len(b)), useBase)

\* a.localeCompare(b) < 0
LocaleLess(a, b) ==
  LessBy(a, b, TRUE) \/ (~LessBy(b, a, TRUE) /\ LessBy(a, b, FALSE))

(***************************************************************************)
(* Reference data.                                                         *)
(***************************************************************************)
STATE_POPULATION_2021 ==
  "Andaman and Nicobar Islands" :> 419978 @@
  "Andhra Pradesh" :> 53903393 @@
  "Arunachal Pradesh" :> 1570458 @@
  "Assam" :> 35607039 @@
  "Bihar" :> 127403751 @@
  "Chandigarh" :> 1184743 @@
  "Chhattisgarh" :> 29436231 @@
  "Dadra and Nagar Haveli and Daman and Diu" :> 867846 @@
  "Delhi" :> 19814000 @@
  "Goa" :> 1586250 @@
  "Gujarat" :> 63872399 @@
  "Haryana" :> 28902198 @@
  "Himachal Pradesh" :> 7304787 @@
  "Jharkhand" :> 38471306 @@
  "Karnataka" :> 67562686 @@
  "Kerala" :> 35699443 @@
  "Madhya Pradesh" :> 85358965 @@
  "Maharashtra" :> 124904071 @@
  "Manipur" :> 3117011 @@
  "Meghalaya" :> 3366710 @@
  "Mizoram" :> 1261231 @@
  "Nagaland" :> 2249695 @@
  "Odisha" :> 46356334 @@
  "Puducherry" :> 1504000 @@
  "Punjab" :> 30141373 @@
  "Rajasthan" :> 81032689 @@
  "Sikkim" :> 690251 @@
  "Tamil Nadu" :> 77841267 @@
  "Telangana" :> 37173107 @@
  "Tripura" :> 4169794 @@
  "Uttar Pradesh" :> 237882725 @@
  "Uttarakhand" :> 11250858 @@
  "West Bengal" :> 100043676 @@
  "Jammu and Kashmir" :> 13635010 @@
  "Ladakh" :> 297419 @@
  "Lakshadweep" :> 73199 @@
  "Andaman & Nicobar Islands" :> 419978

normMap ==
  "NCT of Delhi" :> "Delhi" @@
  "National Capital Territory of Delhi" :> "Delhi" @@
  "Delhi (NCT)" :> "Delhi" @@
  "Uttaranchal" :> "Uttarakhand" @@
  "Uttar Pradesh" :> "Uttar Pradesh" @@
  "Jammu & Kashmir" :> "Jammu and Kashmir" @@
  "Jammu and Kashmir" :> "Jammu and Kashmir" @@
  "Dadra and Nagar Haveli and Daman and Diu" :> "Dadra and Nagar Haveli and Daman and Diu" @@
  "Dadra and Nagar Haveli" :> "Dadra and Nagar Haveli and Daman and Diu" @@
  "Daman" :> "Dadra and Nagar Haveli and Daman and Diu" @@
  "Daman and Diu" :> "Dadra and Nagar Haveli and Daman and Diu" @@
  "Andaman & Nicobar Islands" :> "Andaman and Nicobar Islands" @@
  "Andaman and Nicobar Islands" :> "Andaman and Nicobar Islands" @@
  "Pondicherry" :> "Puducherry" @@
  "Puducherry" :> "Puducherry" @@
  "Orissa" :> "Odisha" @@
  "Karnataka" :> "Karnataka" @@
  "Tamilnadu" :> "Tamil Nadu" @@
  "Telangana" :> "Telangana" @@
  "Chattisgarh" :> "Chhattisgarh" @@
  "Chhatisgarh" :> "Chhattisgarh" @@
  "Lakshadweep Islands" :> "Lakshadweep" @@
  "Lakshadweep" :> "Lakshadweep" @@
  "Arunachal" :> "Arunachal Pradesh" @@
  "Maharastra" :> "Maharashtra" @@
  "Madhya Pradesh" :> "Madhya Pradesh" @@
  "Ladakh" :> "Ladakh"

(***************************************************************************)
(* Region Name Normalizer.                                                 *)
(***************************************************************************)
\* norm without the alias table: the trimmed input.
normNoAlias(s) == Trim(s)

\* The property names every object literal inherits from Object.prototype.
ObjectPrototypeKeys ==
  {"constructor", "toString", "toLocaleString", "valueOf", "hasOwnProperty",
   "isPrototypeOf", "propertyIsEnumerable", "__proto__", "__defineGetter__",
   "__defineSetter__", "__lookupGetter__", "__lookupSetter__"}

\* normMap[key] on the object literal: the own property, else the inherited
\* one (a function, or the prototype object), else undefined.
normMapGet(key) ==
  IF key \in DOMAIN normMap THEN Str(normMap[key])
  ELSE IF key \in ObjectPrototypeKeys THEN [t |-> "object", inherited |-> key]
  ELSE Undef

\* The value of (normMap[trimmed] ?? trimmed) || trimmed; of the values the
\* left side can have, only the empty string is falsy.
normValue(s) ==
  LET trimmed == Trim(s)
      mapped == Coalesce(normMapGet(trimmed), Str(trimmed))
  IN IF mapped = Str("") THEN Str(trimmed) ELSE mapped

\* norm(s) = (normMap[trimmed] ?? trimmed) || trimmed, as the string it is
\* for every name the tables of the pipeline hold.
norm(s) ==
  LET value == normValue(s) IN IF value.t = "str" THEN value.s ELSE value

\* s.trim() on a value that has no trim method
TypeError == [t |-> "throw", error |-> "TypeError"]

\* norm applied to a value norm returned.
normAgain(value) == IF value.t = "str" THEN normValue(value.s) ELSE TypeError

(***************************************************************************)
(* Numbers.                                                                *)
(***************************************************************************)
IsDigits(s) == s # "" /\ \A i \in 1..Len(s) : Ch(s, i) \in DigitSet

RECURSIVE DigitsValue(_)
DigitsValue(s) ==
  IF s = "" THEN 0
  ELSE 10 * DigitsValue(SubSeq(s, 1, Len(s) - 1)) + (IndexIn(Digits, Ch(s, Len(s))) - 1)

\* Number(x) for a string x: surrounding white space is ignored, the empty
\* string is 0, a signed decimal integer literal is its value, "Infinity" is
\* infinite and everything else is NaN.  (Literals with a fraction or an
\* exponent are not among the cells of the model.)
JSNumber(x) ==
  LET s == Trim(x)
      body == IF s # "" /\ Ch(s, 1) \in {"+", "-"} THEN SubSeq(s, 2, Len(s)) ELSE s
      neg == s # "" /\ Ch(s, 1) = "-"
  IN IF s = "" THEN Num(0)
     ELSE IF IsDigits(body) THEN Num(IF neg THEN -DigitsValue(body) ELSE DigitsValue(body))
     ELSE IF body = "Infinity" THEN Inf(IF neg THEN -1 ELSE 1)
     ELSE NaN

IsFiniteNum(v) == v.t \in {"num", "frac"}

\* toNum(x): null for a missing or empty cell and for a cell that does not
\* parse to a finite number.
toNum(x) ==
  IF IsNullish(x) \/ x = Str("") THEN Null
  ELSE LET n == JSNumber(x.s) IN IF IsFiniteNum(n) THEN n ELSE Null

\* a + b on numbers, where a may be null (ToNumber(null) = 0).
JSAdd(a, b) == Num((IF a.t = "null" THEN 0 ELSE a.n) + b.n)

\* Truthiness of a number-or-null value.
Truthy(v) ==
  CASE v.t \in {"null", "undefined", "nan"} -> FALSE
    [] v.t = "num" -> v.n # 0
    [] v.t = "str" -> v.s # ""
    [] v.t = "bool" -> v.b
    [] OTHER -> TRUE

NumOf(v) == IF v.t = "num" THEN v.n ELSE v.n
DenOf(v) == IF v.t = "frac" THEN v.d ELSE 1

\* Sign of a number: -1, 0 or 1 (NaN has none and answers 0).
SignOf(v) ==
  CASE v.t = "inf" -> v.sign
    [] v.t \in {"num", "frac"} -> (IF v.n > 0 THEN 1 ELSE IF v.n < 0 THEN -1 ELSE 0)
    [] OTHER -> 0

\* a / b on finite numbers with b # 0.
Quot(a, b) == Frac(NumOf(a) * DenOf(b), DenOf(a) * NumOf(b))

RECURSIVE IntPow(_, _)
IntPow(b, e) == IF e = 0 THEN 1 ELSE b * IntPow(b, e - 1)

(***************************************************************************)
(* Arithmetic on doubles.  A number near 1 is an exact rational.  A double *)
(* far from 1 is the record of a rational m with a field e and stands for  *)
(* m * 10^e.  e is a multiple of 100 and m is within a few decades of 1,   *)
(* so that a sum of two numbers of different e is the one of the larger e  *)
(* (the smaller is below the last bit of the larger), and a result below   *)
(* 10^-330 is below the smallest positive double and is 0.                 *)
(***************************************************************************)
NumE(n, e) == [t |-> "num", n |-> n, e |-> e]

ExpOf(v) == IF "e" \in DOMAIN v THEN v.e ELSE 0

Mant(v) == IF v.t = "num" THEN Num(v.n) ELSE [t |-> "frac", n |-> v.n, d |-> v.d]

\* m * 10^e as a double
WithExp(m, e) ==
  IF m = Num(0) \/ e = 0 THEN m
  ELSE IF e < -330 THEN Num(0)
  ELSE IF m.t = "num" THEN NumE(m.n, e)
  ELSE [t |-> "frac", n |-> m.n, d |-> m.d, e |-> e]

Negate(v) == WithExp(Frac(-NumOf(v), DenOf(v)), ExpOf(v))

Plus(a, b) ==
  IF a = Num(0) THEN b
  ELSE IF b = Num(0) THEN a
  ELSE IF ExpOf(a) > ExpOf(b) THEN a
  ELSE IF ExpOf(a) < ExpOf(b) THEN b
  ELSE WithExp(Frac(NumOf(a) * DenOf(b) + NumOf(b) * DenOf(a), DenOf(a) * DenOf(b)),
               ExpOf(a))
Minus(a, b) == Plus(a, Negate(b))
Times(a, b) ==
  WithExp(Frac(NumOf(a) * NumOf(b), DenOf(a) * DenOf(b)), ExpOf(a) + ExpOf(b))

\* a / b: a division by 0 gives an infinity, 0 / 0 gives NaN.
Over(a, b) ==
  IF b = Num(0)
  THEN IF a = Num(0) THEN NaN ELSE Inf(IF NumOf(a) < 0 THEN -1 ELSE 1)
  ELSE WithExp(Quot(a, b), ExpOf(a) - ExpOf(b))

\* a - b < 0
LessThan(a, b) ==
  IF ExpOf(a) = ExpOf(b) THEN NumOf(a) * DenOf(b) < NumOf(b) * DenOf(a)
  ELSE NumOf(Minus(a, b)) < 0

\* Math.abs
AbsNum(v) == IF NumOf(v) < 0 THEN Negate(v) ELSE v

\* 1 / years
Reciprocal(years) ==
  CASE years.t = "nan" -> NaN
    [] years.t = "inf" -> Num(0)
    [] OTHER -> IF NumOf(years) = 0 THEN Inf(1) ELSE Frac(DenOf(years), NumOf(years))

\* Math.pow(base, exp) - 1 for a finite base.  Math.pow answers NaN for a NaN
\* exponent and for a negative base with an exponent that is not an integer;
\* an integer exponent is computed exactly; the remaining results are real
\* roots, which the model keeps as the term [t |-> "root", ...].
PowMinusOne(base, exp) ==
  CASE exp.t = "nan" -> NaN
    [] exp.t = "inf" ->
         (IF exp.sign > 0
          THEN (IF Abs(NumOf(base)) > DenOf(base) THEN Inf(1)
                ELSE IF Abs(NumOf(base)) = DenOf(base) THEN NaN
                ELSE Num(-1))
          ELSE (IF Abs(NumOf(base)) > DenOf(base) THEN Num(-1)
                ELSE IF Abs(NumOf(base)) = DenOf(base) THEN NaN
                ELSE Inf(1)))
    [] exp.t = "num" /\ exp.n >= 0 ->
         Frac(IntPow(NumOf(base), exp.n) - IntPow(DenOf(base), exp.n),
              IntPow(DenOf(base), exp.n))
    [] OTHER ->
         IF SignOf(base) < 0 THEN NaN
         ELSE IF SignOf(base) = 0 THEN Num(-1)
         ELSE IF NumOf(base) = DenOf(base) THEN Num(0)
         ELSE [t |-> "root", base |-> base, exp |-> exp]

\* v <= 0 (false when v is NaN)
LeqZero(v) == v.t # "nan" /\ SignOf(v) <= 0

\* cagr without its check of years.
cagrNoYearsCheck(v0, v1, years) ==
  IF ~IsFiniteNum(v0) \/ ~IsFiniteNum(v1) \/ LeqZero(v0) THEN Null
  ELSE PowMinusOne(Quot(v1, v0), Reciprocal(years))

cagr(v0, v1, years) ==
  IF ~IsFiniteNum(v0) \/ ~IsFiniteNum(v1) \/ LeqZero(v0) \/ LeqZero(years) THEN Null
  ELSE PowMinusOne(Quot(v1, v0), Reciprocal(years))

(***************************************************************************)
(* Text classifiers.                                                       *)
(***************************************************************************)
SWEET_NAME_KEYWORDS == <<
  "sweet", "halwa", "laddu", "ladoo", "barfi", "burfi",
  "kheer", "payasam", "peda", "rasgulla", "rasmalai", "kesari",
  "jalebi", "sheera", "poli", "mithai", "malpua", "gulab jamun",
  "sandesh", "shrikhand", "ghewar", "modak", "kulfi", "puran poli"
>>

SWEET_INGREDIENT_KEYWORDS == <<
  "sugar", "jaggery", "honey", "condensed milk", "khoya", "mawa",
  "rabdi", "gud", "treacle", "molasses", "palm jaggery", "dates",
  "khoa"
>>

LENTIL_TERMS == <<"lentil", "dal", "toor", "masoor", "moong", "chana", "chickpea", "arhar", "urad">>
RED_MEAT_TERMS == <<"mutton", "lamb", "pork", "beef", "yak">>
POULTRY_TERMS == <<"chicken", "duck">>
FISH_TERMS == <<"fish", "prawn", "prawns", "shrimp", "tuna", "pomfret", "crab", "seafood">>
TURMERIC_TERMS == <<"turmeric", "haldi">>
NON_VEG_TERMS == <<"chicken", "mutton", "lamb", "pork", "beef", "fish", "prawn", "prawns", "shrimp", "egg", "eggs", "crab", "tuna", "clam">>

\* The ordered (pattern, region) rules.  An alternative <<lb, w, rb>> is the
\* literal w, anchored by \b on the left when lb and on the right when rb.
CUISINE_TO_STATE == <<
  [alts |-> <<<<TRUE, "andhra", TRUE>>, <<FALSE, "rayalaseema", FALSE>>, <<FALSE, "nellore", FALSE>>, <<FALSE, "guntur", FALSE>>>>,
   state |-> "Andhra Pradesh"],
  [alts |-> <<<<TRUE, "telangana", TRUE>>, <<FALSE, "hyderabadi", FALSE>>, <<FALSE, "nizam", FALSE>>>>,
   state |-> "Telangana"],
  [alts |-> <<<<TRUE, "bengal", TRUE>>, <<TRUE, "bengali", TRUE>>, <<FALSE, "kolkata", FALSE>>, <<FALSE, "calcutta", FALSE>>>>,
   state |-> "West Bengal"],
  [alts |-> <<<<TRUE, "odia", TRUE>>, <<TRUE, "oriya", TRUE>>, <<TRUE, "odisha", TRUE>>, <<FALSE, "cuttack", FALSE>>, <<FALSE, "bhubaneswar", FALSE>>>>,
   state |-> "Odisha"],
  [alts |-> <<<<TRUE, "assam", TRUE>>, <<TRUE, "assamese", TRUE>>, <<FALSE, "ahom", FALSE>>, <<FALSE, "bihu", FALSE>>>>,
   state |-> "Assam"],
  [alts |-> <<<<TRUE, "bihar", TRUE>>, <<TRUE, "bihari", TRUE>>, <<FALSE, "magahi", FALSE>>>>,
   state |-> "Bihar"],
  [alts |-> <<<<TRUE, "arunachal", TRUE>>, <<FALSE, "monpa", FALSE>>, <<FALSE, "adi", FALSE>>, <<FALSE, "nyishi", FALSE>>>>,
   state |-> "Arunachal Pradesh"],
  [alts |-> <<<<TRUE, "chhattisgarh", TRUE>>, <<TRUE, "chattisgarh", TRUE>>, <<FALSE, "bastar", FALSE>>>>,
   state |-> "Chhattisgarh"],
  [alts |-> <<<<TRUE, "goa", TRUE>>, <<TRUE, "goan", TRUE>>>>,
   state |-> "Goa"],
  [alts |-> <<<<TRUE, "gujarat", TRUE>>, <<TRUE, "gujarati", TRUE>>, <<FALSE, "kathiyawadi", FALSE>>, <<FALSE, "kathiawadi", FALSE>>, <<FALSE, "surti", FALSE>>>>,
   state |-> "Gujarat"],
  [alts |-> <<<<TRUE, "haryana", TRUE>>, <<FALSE, "haryanvi", FALSE>>>>,
   state |-> "Haryana"],
  [alts |-> <<<<TRUE, "himachal", TRUE>>, <<FALSE, "pahari", FALSE>>, <<FALSE, "kangra", FALSE>>>>,
   state |-> "Himachal Pradesh"],
  [alts |-> <<<<TRUE, "jharkhand", TRUE>>, <<FALSE, "chota nagpur", FALSE>>>>,
   state |-> "Jharkhand"],
  [alts |-> <<<<TRUE, "karnataka", TRUE>>, <<FALSE, "mangalorean", FALSE>>, <<FALSE, "udupi", FALSE>>, <<FALSE, "coorg", FALSE>>, <<FALSE, "kodava", FALSE>>, <<FALSE, "malnad", FALSE>>, <<FALSE, "coastal karnataka", FALSE>>, <<FALSE, "north karnataka", FALSE>>, <<FALSE, "south karnataka", FALSE>>, <<FALSE, "mysore", FALSE>>>>,
   state |-> "Karnataka"],
  [alts |-> <<<<TRUE, "kerala", TRUE>>, <<FALSE, "malabar", FALSE>>, <<FALSE, "onam", FALSE>>, <<FALSE, "nadan", FALSE>>>>,
   state |-> "Kerala"],
  [alts |-> <<<<TRUE, "madhya pradesh", TRUE>>, <<FALSE, "malwa", FALSE>>, <<FALSE, "bagheli", FALSE>>, <<FALSE, "baghelkhand", FALSE>>, <<FALSE, "mahakoshal", FALSE>>, <<FALSE, "bhopal", FALSE>>, <<FALSE, "indore", FALSE>>>>,
   state |-> "Madhya Pradesh"],
  [alts |-> <<<<TRUE, "maharashtra", TRUE>>, <<FALSE, "maharashtrian", FALSE>>, <<FALSE, "konkan", FALSE>>, <<FALSE, "malvani", FALSE>>, <<FALSE, "vidarbha", FALSE>>, <<FALSE, "kolhapuri", FALSE>>, <<FALSE, "parsi", FALSE>>>>,
   state |-> "Maharashtra"],
  [alts |-> <<<<TRUE, "manipur", TRUE>>, <<FALSE, "manipuri", FALSE>>, <<FALSE, "meitei", FALSE>>>>,
   state |-> "Manipur"],
  [alts |-> <<<<TRUE, "meghalaya", TRUE>>, <<FALSE, "khasi", FALSE>>, <<FALSE, "jaintia", FALSE>>, <<FALSE, "garo", FALSE>>>>,
   state |-> "Meghalaya"],
  [alts |-> <<<<TRUE, "mizoram", TRUE>>, <<FALSE, "mizo", FALSE>>>>,
   state |-> "Mizoram"],
  [alts |-> <<<<TRUE, "nagaland", TRUE>>, <<TRUE, "naga", TRUE>>>>,
   state |-> "Nagaland"],
  [alts |-> <<<<TRUE, "sikkim", TRUE>>, <<FALSE, "lepcha", FALSE>>, <<FALSE, "bhutia", FALSE>>>>,
   state |-> "Sikkim"],
  [alts |-> <<<<TRUE, "tamil", TRUE>>, <<FALSE, "chettinad", FALSE>>, <<FALSE, "kongunadu", FALSE>>, <<FALSE, "madurai", FALSE>>, <<FALSE, "tirunelveli", FALSE>>>>,
   state |-> "Tamil Nadu"],
  [alts |-> <<<<TRUE, "uttar pradesh", TRUE>>, <<FALSE, "awadhi", FALSE>>, <<FALSE, "lucknowi", FALSE>>, <<FALSE, "banarasi", FALSE>>, <<FALSE, "kashi", FALSE>>>>,
   state |-> "Uttar Pradesh"],
  [alts |-> <<<<TRUE, "uttarakhand", TRUE>>, <<FALSE, "uttarakhand", TRUE>>, <<FALSE, "kumaon", FALSE>>, <<FALSE, "garhwal", FALSE>>, <<FALSE, "garhwali", FALSE>>>>,
   state |-> "Uttarakhand"],
  [alts |-> <<<<TRUE, "punjab", TRUE>>, <<FALSE, "punjabi", FALSE>>, <<FALSE, "amritsar", FALSE>>>>,
   state |-> "Punjab"],
  [alts |-> <<<<TRUE, "rajasthan", TRUE>>, <<FALSE, "rajasthani", FALSE>>, <<FALSE, "marwari", FALSE>>, <<FALSE, "jaipuri", FALSE>>, <<FALSE, "jodhpuri", FALSE>>>>,
   state |-> "Rajasthan"],
  [alts |-> <<<<TRUE, "delhi", TRUE>>, <<FALSE, "dilli", FALSE>>>>,
   state |-> "Delhi"],
  [alts |-> <<<<TRUE, "chandigarh", TRUE>>>>,
   state |-> "Chandigarh"],
  [alts |-> <<<<TRUE, "puducherry", TRUE>>, <<FALSE, "pondicherry", FALSE>>>>,
   state |-> "Puducherry"],
  [alts |-> <<<<TRUE, "andaman", TRUE>>, <<FALSE, "nicobar", FALSE>>, <<FALSE, "car nicobar", FALSE>>>>,
   state |-> "Andaman and Nicobar Islands"],
  [alts |-> <<<<TRUE, "lakshadweep", TRUE>>, <<FALSE, "laccadive", FALSE>>, <<FALSE, "minicoy", FALSE>>>>,
   state |-> "Lakshadweep"],
  [alts |-> <<<<TRUE, "dadra", TRUE>>, <<FALSE, "nagar haveli", FALSE>>, <<FALSE, "daman", FALSE>>, <<TRUE, "diu", TRUE>>>>,
   state |-> "Dadra and Nagar Haveli and Daman and Diu"],
  [alts |-> <<<<TRUE, "ladakh", TRUE>>, <<FALSE, "ladakhi", FALSE>>>>,
   state |-> "Ladakh"],
  [alts |-> <<<<TRUE, "kashmir", TRUE>>, <<FALSE, "kashmiri", FALSE>>, <<FALSE, "kashmiri pandit", FALSE>>>>,
   state |-> "Jammu and Kashmir"],
  [alts |-> <<<<TRUE, "tripura", TRUE>>, <<FALSE, "tripuri", FALSE>>, <<FALSE, "kokborok", FALSE>>>>,
   state |-> "Tripura"],
  [alts |-> <<<<TRUE, "goan", TRUE>>>>,
   state |-> "Goa"],
  [alts |-> <<<<TRUE, "konkani", TRUE>>>>,
   state |-> "Goa"],
  [alts |-> <<<<TRUE, "haryana", TRUE>>>>,
   state |-> "Haryana"],
  [alts |-> <<<<TRUE, "bastar", TRUE>>>>,
   state |-> "Chhattisgarh"],
  [alts |-> <<<<TRUE, "himachali", TRUE>>>>,
   state |-> "Himachal Pradesh"]
>>

\* label.replace(/recipes?/g, '')
RECURSIVE RemoveRecipes(_)
RemoveRecipes(s) ==
  IF s = "" THEN ""
  ELSE IF StartsAt(s, 1, "recipes") THEN RemoveRecipes(SubSeq(s, 8, Len(s)))
  ELSE IF StartsAt(s, 1, "recipe") THEN RemoveRecipes(SubSeq(s, 7, Len(s)))
  ELSE Ch(s, 1) \o RemoveRecipes(SubSeq(s, 2, Len(s)))

normalizeStateText(label) ==
  Trim(CollapseSpaces(NonLettersToSpace(
    RemoveAll(RemoveRecipes(ToLowerCase(label)), "cuisine"))))

\* \w
IsWordCh(c) == c \in LowerSet \cup UpperSet \cup DigitSet \cup {"_"}

\* One alternative of a pattern matches somewhere in text.
AltMatches(alt, text) ==
  \E i \in 1..(Len(text) - Len(alt[2]) + 1) :
    /\ SubSeq(text, i, i + Len(alt[2]) - 1) = alt[2]
    /\ alt[1] => (i = 1 \/ ~IsWordCh(Ch(text, i - 1)))
    /\ alt[3] => (i + Len(alt[2]) > Len(text) \/ ~IsWordCh(Ch(text, i + Len(alt[2]))))

\* pattern.test(text)
PatternTest(rule, text) == \E k \in DOMAIN rule.alts : AltMatches(rule.alts[k], text)

\* The last rule of the list whose pattern matches: a loop that goes on after
\* a match.
LastMatch(rules, text) ==
  IF \E k \in DOMAIN rules : PatternTest(rules[k], text)
  THEN Str(rules[CHOOSE k \in DOMAIN rules :
                   /\ PatternTest(rules[k], text)
                   /\ \A j \in (k + 1)..Len(rules) : ~PatternTest(rules[j], text)].state)
  ELSE Null

\* The first rule, in the order of the list, whose pattern matches.
FirstMatch(rules, text) ==
  IF \E k \in DOMAIN rules : PatternTest(rules[k], text)
  THEN Str(rules[CHOOSE k \in DOMAIN rules :
                   /\ PatternTest(rules[k], text)
                   /\ \A j \in 1..(k - 1) : ~PatternTest(rules[j], text)].state)
  ELSE Null

inferStateFromText(rawText) ==
  IF ~Truthy(rawText) THEN Null
  ELSE LET normalized == normalizeStateText(rawText.s)
       IN IF normalized = "" THEN Null ELSE FirstMatch(CUISINE_TO_STATE, normalized)

\* classifyDiet with the test for 'veg' moved to the front.
classifyDietVegFirst(rawDiet) ==
  IF ~Truthy(rawDiet) THEN Null
  ELSE LET diet == ToLowerCase(rawDiet.s)
       IN IF Includes(diet, "veg") THEN Str("vegetarian")
          ELSE IF Includes(diet, "non") THEN Str("non-vegetarian")
          ELSE IF Includes(diet, "egg") THEN Str("non-vegetarian")
          ELSE Null

classifyDiet(rawDiet) ==
  IF ~Truthy(rawDiet) THEN Null
  ELSE LET diet == ToLowerCase(rawDiet.s)
       IN IF Includes(diet, "non") THEN Str("non-vegetarian")
          ELSE IF Includes(diet, "egg") THEN Str("non-vegetarian")
          ELSE IF Includes(diet, "veg") THEN Str("vegetarian")
          ELSE Null

\* list.some((kw) => s.includes(kw))
SomeIncluded(s, list) == \E k \in DOMAIN list : Includes(s, list[k])

\* detectSweetness with every keyword, multi-word ones too, tried on the tokens.
detectSweetnessAllOnTokens(name, course, tokens, rawIngredients) ==
  LET courseLower == IF IsNullish(course) THEN "" ELSE ToLowerCase(course.s)
      lowerName == ToLowerCase(name)
      rawLower == ToLowerCase(rawIngredients)
  IN \/ Includes(courseLower, "dessert") \/ Includes(courseLower, "sweet")
     \/ SomeIncluded(lowerName, SWEET_NAME_KEYWORDS)
     \/ SomeIncluded(rawLower, SWEET_INGREDIENT_KEYWORDS)
     \/ \E i \in DOMAIN tokens : SomeIncluded(tokens[i], SWEET_INGREDIENT_KEYWORDS)

detectSweetness(name, course, tokens, rawIngredients) ==
  LET courseLower == IF IsNullish(course) THEN "" ELSE ToLowerCase(course.s)
      lowerName == ToLowerCase(name)
      rawLower == ToLowerCase(rawIngredients)
  IN \/ Includes(courseLower, "dessert") \/ Includes(courseLower, "sweet")
     \/ SomeIncluded(lowerName, SWEET_NAME_KEYWORDS)
     \/ SomeIncluded(rawLower, SWEET_INGREDIENT_KEYWORDS)
     \/ \E i \in DOMAIN tokens : \E k \in DOMAIN SWEET_INGREDIENT_KEYWORDS :
          IF Includes(SWEET_INGREDIENT_KEYWORDS[k], " ") THEN FALSE
          ELSE Includes(tokens[i], SWEET_INGREDIENT_KEYWORDS[k])

\* part.replace(/\([^)]*\)/g, '')
RECURSIVE RemoveParens(_)
RemoveParens(s) ==
  IF s = "" THEN ""
  ELSE IF Ch(s, 1) = "(" /\ Includes(SubSeq(s, 2, Len(s)), ")")
       THEN LET close == CHOOSE k \in 2..Len(s) :
                           Ch(s, k) = ")" /\ \A j \in 2..(k - 1) : Ch(s, j) # ")"
            IN RemoveParens(SubSeq(s, close + 1, Len(s)))
       ELSE Ch(s, 1) \o RemoveParens(SubSeq(s, 2, Len(s)))

\* One comma-separated part of the ingredient text, cleaned.
CleanPart(part) ==
  Trim(CollapseSpaces(NonLettersToSpace(Trim(RemoveParens(part)))))

\* seq.filter(Boolean) on strings
RECURSIVE FilterNonEmpty(_)
FilterNonEmpty(seq) ==
  IF seq = <<>> THEN <<>>
  ELSE (IF Head(seq) = "" THEN <<>> ELSE <<Head(seq)>>) \o FilterNonEmpty(Tail(seq))

tokenizeIngredients(s) ==
  IF s = "" THEN <<>>
  ELSE LET parts == Split(ToLowerCase(s), ",")
       IN FilterNonEmpty([i \in DOMAIN parts |-> CleanPart(parts[i])])

anyMention(tokens, terms) ==
  \E i \in DOMAIN tokens : \E k \in DOMAIN terms : Includes(tokens[i], terms[k])

(***************************************************************************)
(* Input rows of the model.  Every cell is Str(text) or Undef (a column or *)
(* property that is absent).                                               *)
(***************************************************************************)
Years == {2019, 2020, 2021, 2022}

YearCells(c2019, c2020, c2021, c2022) ==
  (2019 :> c2019) @@ (2020 :> c2020) @@ (2021 :> c2021) @@ (2022 :> c2022)

\* Yearly cells of an incidence row: all present; 2019 empty; a zero and a
\* non-numeric cell; a negative count.
CellsFull == YearCells(Str("3"), Str("3"), Str("3"), Str("3"))
CellsNo2019 == YearCells(Str(""), Str("3"), Str("3"), Str("3"))
CellsZeroAndText == YearCells(Str("3"), Str("0"), Str("n/a"), Str("3"))
CellsNegative == YearCells(Str("6"), Str("3"), Undef, Str("-3"))

CancerRow(stateCell, cells) == [State_UT |-> stateCell, cells |-> cells]

CancerRowSet ==
  {CancerRow(Str("Goa"), c) : c \in {CellsFull, CellsNo2019, CellsZeroAndText, CellsNegative}}
  \cup {CancerRow(Str(" Orissa "), c) : c \in {CellsFull, CellsNo2019}}
  \cup {CancerRow(Str("Odisha"), c) : c \in {CellsFull, CellsZeroAndText}}
  \cup {CancerRow(Str("Bombay"), CellsFull), CancerRow(Str("Madras"), CellsNo2019),
        CancerRow(Str("-1"), CellsFull), CancerRow(Str("  "), CellsFull),
        CancerRow(Undef, CellsFull)}

ArchanaRowSet == {
  [cuisine |-> Str("Goan Recipes"), recipe_name |-> Str("Goan Fish Curry"),
   course |-> Str("Lunch"), diet |-> Str("Non Vegeterian"),
   prep_time_mins |-> Str("10"), cook_time_mins |-> Str("30"),
   translated_ingredients |-> Str("Fish, Turmeric powder (Haldi), Coconut")],
  [cuisine |-> Str("Continental"), recipe_name |-> Str("Baked Pasta"),
   course |-> Str("Dinner"), diet |-> Str("Vegetarian"),
   prep_time_mins |-> Str("15"), cook_time_mins |-> Str("25"),
   translated_ingredients |-> Str("Pasta, Cheese")],
  [cuisine |-> Str("Indian"), recipe_name |-> Str("Kolkata Style Kheer"),
   course |-> Str("Dessert"), diet |-> Str("Vegetarian"),
   prep_time_mins |-> Str(""), cook_time_mins |-> Str("20"),
   translated_ingredients |-> Str("Milk, Sugar, Rice, Sugar")],
  [cuisine |-> Str("Oriya Recipes"), recipe_name |-> Str("  "),
   course |-> Str("Lunch"), diet |-> Str("Vegetarian"),
   prep_time_mins |-> Str("5"), cook_time_mins |-> Str("5"),
   translated_ingredients |-> Str("Rice")],
  [cuisine |-> Undef, recipe_name |-> Str("Dal Fry"),
   course |-> Str("Punjabi Main Course"), diet |-> Str("Vegetarian"),
   prep_time_mins |-> Str("10"), cook_time_mins |-> Undef,
   translated_ingredients |-> Str("Toor Dal, Egg")],
  [cuisine |-> Str(""), recipe_name |-> Undef,
   course |-> Str("Snack"), diet |-> Undef,
   prep_time_mins |-> Undef, cook_time_mins |-> Undef,
   translated_ingredients |-> Undef]
}

LegacyRowSet == {
  [state |-> Str("Odisha"), name |-> Str("Chhena poda"), diet |-> Str("vegetarian"),
   prep_time |-> Str("10"), cook_time |-> Str("45"),
   ingredients |-> Str("Chhena, Sugar"), flavor_profile |-> Str("sweet"),
   course |-> Str("dessert")],
  [state |-> Str(" Orissa "), name |-> Str("Dalma"), diet |-> Str("vegetarian"),
   prep_time |-> Str(""), cook_time |-> Str("30"),
   ingredients |-> Str("Toor dal, Turmeric"), flavor_profile |-> Str("spicy"),
   course |-> Str("main course")],
  [state |-> Str("Goa"), name |-> Str("Chicken Xacuti"), diet |-> Str("non vegetarian"),
   prep_time |-> Str("20"), cook_time |-> Str("40"),
   ingredients |-> Str("Chicken, Coconut, Chicken"), flavor_profile |-> Str("spicy"),
   course |-> Str("main course")],
  [state |-> Str("Bombay"), name |-> Str("Vada pav"), diet |-> Str("Jain"),
   prep_time |-> Str("15"), cook_time |-> Undef,
   ingredients |-> Str("Potato, Chana dal"), flavor_profile |-> Str(""),
   course |-> Str("snack")],
  [state |-> Str("-1"), name |-> Str("Pulao"), diet |-> Str("vegetarian"),
   prep_time |-> Str("10"), cook_time |-> Str("20"),
   ingredients |-> Str("Rice"), flavor_profile |-> Str("-1"),
   course |-> Str("main course")],
  [state |-> Str("  "), name |-> Str("Papad"), diet |-> Str("vegetarian"),
   prep_time |-> Str("5"), cook_time |-> Str("5"),
   ingredients |-> Str("Urad dal"), flavor_profile |-> Str("spicy"),
   course |-> Str("snack")],
  [state |-> Undef, name |-> Str("Lassi"), diet |-> Str("vegetarian"),
   prep_time |-> Str("5"), cook_time |-> Str("5"),
   ingredients |-> Str("Curd, Sugar"), flavor_profile |-> Str("sweet"),
   course |-> Str("dessert")]
}

ManualRowSet == {
  [state |-> "Pondicherry", recipe_name |-> "Prawn curry", diet |-> "non-vegetarian",
   is_sweet |-> Undef, prep_time_mins |-> Num(15), cook_time_mins |-> Undef,
   ingredients |-> <<"Prawns", "Coconut milk">>],
  [state |-> " Puducherry", recipe_name |-> "Pongal", diet |-> "vegetarian",
   is_sweet |-> Bool(TRUE), prep_time_mins |-> Undef, cook_time_mins |-> Num(25),
   ingredients |-> <<"Rice", "Moong dal", "Jaggery">>],
  [state |-> "-1", recipe_name |-> "Unknown", diet |-> "vegetarian",
   is_sweet |-> Bool(FALSE), prep_time_mins |-> Num(5), cook_time_mins |-> Num(5),
   ingredients |-> <<"Rice">>]
}

(***************************************************************************)
(* Incidence aggregation and the Growth & Rate Calculator.                 *)
(***************************************************************************)
\* String(row['State/UT'] ?? '').trim()
rawStateOf(row) == Trim(Coalesce(row.State_UT, Str("")).s)

\* The bucket created for a region on its first row.
NewCancerBucket(state, rawState) ==
  [state |-> state,
   population |->
     IF state \in DOMAIN STATE_POPULATION_2021 THEN Num(STATE_POPULATION_2021[state])
     ELSE IF rawState \in DOMAIN STATE_POPULATION_2021
          THEN Num(STATE_POPULATION_2021[rawState])
          ELSE Null,
   incidence |-> [y \in Years |-> Num(0)],
   incidence_cagr_19_22 |-> Undef,
   incidence_per_100k |-> [y \in Years |-> Undef]]

\* if (v != null) bucket.incidence_Y += v; else bucket.incidence_Y = null;
AccumulateYear(total, v) == IF ~IsNullish(v) THEN JSAdd(total, v) ELSE Null

\* One iteration of the loop over cancerCSV.
AddCancerRow(byState, row) ==
  LET rawState == rawStateOf(row)
      state == norm(rawState)
      bucket == IF state \in DOMAIN byState THEN byState[state]
                ELSE NewCancerBucket(state, rawState)
      updated == [bucket EXCEPT
                    !.incidence = [y \in Years |->
                                     AccumulateYear(bucket.incidence[y], toNum(row.cells[y]))]]
  IN IF rawState = "" THEN byState
     ELSE [k \in DOMAIN byState \cup {state} |-> IF k = state THEN updated ELSE byState[k]]

\* The rate with a truthiness test of the count: a total of 0 gives null.
PerCapitaRateTruthy(incidenceValue, population) ==
  IF Truthy(incidenceValue) /\ Truthy(population)
  THEN Frac(incidenceValue.n * 100000, population.n)
  ELSE Null

\* incidenceValue != null && population ? (incidenceValue / population) * 100_000 : null
PerCapitaRate(incidenceValue, population) ==
  IF ~IsNullish(incidenceValue) /\ Truthy(population)
  THEN Frac(incidenceValue.n * 100000, population.n)
  ELSE Null

\* The body of the loop over Object.keys(cancerByState).
DeriveBucket(bucket) ==
  LET v2019 == bucket.incidence[2019]
      v2022 == bucket.incidence[2022]
      population == Coalesce(bucket.population, Null)
  IN [bucket EXCEPT
        !.incidence_cagr_19_22 =
           IF ~IsNullish(v2019) /\ ~IsNullish(v2022) THEN cagr(v2019, v2022, Num(3)) ELSE Null,
        !.incidence_per_100k =
           [y \in Years |-> PerCapitaRate(bucket.incidence[y], population)]]

\* The keys sorted the other way round.
RECURSIVE SortKeysDescending(_)
SortKeysDescending(S) ==
  IF S = {} THEN <<>>
  ELSE LET m == CHOOSE x \in S : \A y \in S \ {x} : LocaleLess(y, x)
       IN <<m>> \o SortKeysDescending(S \ {m})

\* keys.sort((a, b) => a.localeCompare(b)) on distinct keys
RECURSIVE SortKeys(_)
SortKeys(S) ==
  IF S = {} THEN <<>>
  ELSE LET m == CHOOSE x \in S : \A y \in S \ {x} : LocaleLess(x, y)
       IN <<m>> \o SortKeys(S \ {m})

\* Object.values(byState).sort((a, b) => a.state.localeCompare(b.state))
SortedValues(byState) ==
  LET keys == SortKeys(DOMAIN byState) IN [i \in DOMAIN keys |-> byState[keys[i]]]

\* The first affected region only.
RECURSIVE MissingPopulationFirst(_)
MissingPopulationFirst(rows) ==
  IF rows = <<>> THEN <<>>
  ELSE IF IsNullish(Head(rows).population) THEN <<Head(rows).state>>
  ELSE MissingPopulationFirst(Tail(rows))

\* seq.filter(pred).map(row => row.state) for pred = (row.population == null)
RECURSIVE MissingPopulation(_)
MissingPopulation(rows) ==
  IF rows = <<>> THEN <<>>
  ELSE (IF IsNullish(Head(rows).population) THEN <<Head(rows).state>> ELSE <<>>)
       \o MissingPopulation(Tail(rows))

\* seq.join(sep)
RECURSIVE Join(_, _)
Join(seq, sep) ==
  IF seq = <<>> THEN ""
  ELSE IF Len(seq) = 1 THEN seq[1]
  ELSE seq[1] \o sep \o Join(Tail(seq), sep)

MissingPopulationMessage(states) == "Missing population for states: " \o Join(states, ", ")

(***************************************************************************)
(* Per-Region Aggregator.                                                  *)
(***************************************************************************)
NewCuisineBucket(state) ==
  [state |-> state, dish_count |-> 0, veg |-> 0, sweet |-> 0,
   prep_sum |-> Num(0), prep_n |-> 0, cook_sum |-> Num(0), cook_n |-> 0,
   lentil_like |-> 0, red_meat_like |-> 0, poultry |-> 0, fish |-> 0, turmeric |-> 0,
   ingredient_stats |-> <<>>]

\* The tokens as they come, repeats included.
KeepRepeats(tokens) == tokens

\* Array.from(new Set(tokens)): first occurrences, in order.
RECURSIVE Unique(_)
Unique(tokens) ==
  IF tokens = <<>> THEN <<>>
  ELSE LET front == Unique(SubSeq(tokens, 1, Len(tokens) - 1))
           last == tokens[Len(tokens)]
       IN IF \E i \in DOMAIN front : front[i] = last THEN front ELSE Append(front, last)

\* map.set(token, (map.get(token) ?? 0) + 1) on an insertion-ordered map, kept
\* as a sequence of entries [k, v].
Bump(stats, token) ==
  IF \E i \in DOMAIN stats : stats[i].k = token
  THEN [i \in DOMAIN stats |->
          IF stats[i].k = token THEN [k |-> token, v |-> stats[i].v + 1] ELSE stats[i]]
  ELSE Append(stats, [k |-> token, v |-> 1])

RECURSIVE BumpAll(_, _)
BumpAll(stats, tokens) ==
  IF tokens = <<>> THEN stats ELSE BumpAll(Bump(stats, Head(tokens)), Tail(tokens))

\* A counter that counts an observation twice.
IncTwice(n, cond) == IF cond THEN n + 2 ELSE n

\* if (cond) counter += 1
Inc(n, cond) == IF cond THEN n + 1 ELSE n

\* The accepted state key of an observation.
IsIgnoredState(state) == state = "" \/ state = "-1"

\* The ingredient evidence left out: the diet tag alone decides.
TrustDietTag(tokens) == FALSE

\* details.tokens.some((token) => NON_VEG_TERMS.some((term) => token.includes(term)))
HasAnimalProtein(tokens) == anyMention(tokens, NON_VEG_TERMS)

\* Every observation counted as a timing sample.
HasTimingAlways(v) == TRUE

\* details.prep != null
HasTiming(v) == ~IsNullish(v)

\* The number += adds for a timing: null adds 0.
MinutesOf(v) == IF v = Null THEN Num(0) ELSE v

\* The observation with the dish itself left uncounted.
ObserveNoDish(bucket, details) ==
  LET hasAnimalProtein == HasAnimalProtein(details.tokens)
      isVegetarian == details.diet = Str("vegetarian") /\ ~hasAnimalProtein
      uniqueTokens == Unique(details.tokens)
      some == details.tokens # <<>>
  IN [bucket EXCEPT
        !.veg = Inc(@, isVegetarian),
        !.sweet = Inc(@, details.sweet),
        !.prep_sum = IF HasTiming(details.prep) THEN Plus(@, MinutesOf(details.prep)) ELSE @,
        !.prep_n = Inc(@, HasTiming(details.prep)),
        !.cook_sum = IF HasTiming(details.cook) THEN Plus(@, MinutesOf(details.cook)) ELSE @,
        !.cook_n = Inc(@, HasTiming(details.cook)),
        !.lentil_like = Inc(@, some /\ anyMention(uniqueTokens, LENTIL_TERMS)),
        !.red_meat_like = Inc(@, some /\ anyMention(uniqueTokens, RED_MEAT_TERMS)),
        !.poultry = Inc(@, some /\ anyMention(uniqueTokens, POULTRY_TERMS)),
        !.fish = Inc(@, some /\ anyMention(uniqueTokens, FISH_TERMS)),
        !.turmeric = Inc(@, some /\ anyMention(uniqueTokens, TURMERIC_TERMS)),
        !.ingredient_stats = IF some THEN BumpAll(@, uniqueTokens) ELSE @]

\* The bucket after one accepted observation.
Observe(bucket, details) ==
  LET hasAnimalProtein == HasAnimalProtein(details.tokens)
      isVegetarian == details.diet = Str("vegetarian") /\ ~hasAnimalProtein
      uniqueTokens == Unique(details.tokens)
      some == details.tokens # <<>>
  IN [bucket EXCEPT
        !.dish_count = @ + 1,
        !.veg = Inc(@, isVegetarian),
        !.sweet = Inc(@, details.sweet),
        !.prep_sum = IF HasTiming(details.prep) THEN Plus(@, MinutesOf(details.prep)) ELSE @,
        !.prep_n = Inc(@, HasTiming(details.prep)),
        !.cook_sum = IF HasTiming(details.cook) THEN Plus(@, MinutesOf(details.cook)) ELSE @,
        !.cook_n = Inc(@, HasTiming(details.cook)),
        !.lentil_like = Inc(@, some /\ anyMention(uniqueTokens, LENTIL_TERMS)),
        !.red_meat_like = Inc(@, some /\ anyMention(uniqueTokens, RED_MEAT_TERMS)),
        !.poultry = Inc(@, some /\ anyMention(uniqueTokens, POULTRY_TERMS)),
        !.fish = Inc(@, some /\ anyMention(uniqueTokens, FISH_TERMS)),
        !.turmeric = Inc(@, some /\ anyMention(uniqueTokens, TURMERIC_TERMS)),
        !.ingredient_stats = IF some THEN BumpAll(@, uniqueTokens) ELSE @]

\* addObservation with one ingredient map behind all the buckets.
addObservationSharedStats(acc, stateRaw, details) ==
  LET state == norm(stateRaw)
      bucket == IF state \in DOMAIN acc THEN acc[state] ELSE NewCuisineBucket(state)
  IN IF IsIgnoredState(state) THEN acc
     ELSE [k \in DOMAIN acc \cup {state} |->
             IF k = state THEN Observe(bucket, details)
             ELSE [acc[k] EXCEPT !.ingredient_stats =
                                   Observe(acc[k], details).ingredient_stats]]

addObservation(acc, stateRaw, details) ==
  LET state == norm(stateRaw)
      bucket == IF state \in DOMAIN acc THEN acc[state] ELSE NewCuisineBucket(state)
  IN IF IsIgnoredState(state) THEN acc
     ELSE [k \in DOMAIN acc \cup {state} |->
             IF k = state THEN Observe(bucket, details) ELSE acc[k]]

\* The call of addObservation a source row leads to, if any.
NoCall == [call |-> FALSE]
Call(stateRaw, details) == [call |-> TRUE, stateRaw |-> stateRaw, details |-> details]

\* a || b
JSOr(a, b) == IF Truthy(a) THEN a ELSE b

\* (cell ?? '') as a string
TextOf(cell) == Coalesce(cell, Str("")).s

\* The recipe row handler without the skip of unresolved regions: the raw
\* cuisine label stands in for the region.
ArchanaCallNoSkip(row) ==
  LET stateFromCuisine ==
        JSOr(JSOr(inferStateFromText(row.cuisine), inferStateFromText(row.recipe_name)),
             inferStateFromText(row.course))
      name == Trim(TextOf(row.recipe_name))
      ingredientsRaw == Trim(TextOf(row.translated_ingredients))
      tokens == tokenizeIngredients(ingredientsRaw)
  IN IF name = "" THEN NoCall
     ELSE Call(IF Truthy(stateFromCuisine) THEN stateFromCuisine.s ELSE TextOf(row.cuisine),
               [diet |-> classifyDiet(row.diet),
                sweet |-> detectSweetness(name, row.course, tokens, ingredientsRaw),
                prep |-> toNum(row.prep_time_mins),
                cook |-> toNum(row.cook_time_mins),
                tokens |-> tokens])

ArchanaCall(row) ==
  LET stateFromCuisine ==
        JSOr(JSOr(inferStateFromText(row.cuisine), inferStateFromText(row.recipe_name)),
             inferStateFromText(row.course))
      name == Trim(TextOf(row.recipe_name))
      ingredientsRaw == Trim(TextOf(row.translated_ingredients))
      tokens == tokenizeIngredients(ingredientsRaw)
  IN IF ~Truthy(stateFromCuisine) THEN NoCall
     ELSE IF name = "" THEN NoCall
     ELSE Call(stateFromCuisine.s,
               [diet |-> classifyDiet(row.diet),
                sweet |-> detectSweetness(name, row.course, tokens, ingredientsRaw),
                prep |-> toNum(row.prep_time_mins),
                cook |-> toNum(row.cook_time_mins),
                tokens |-> tokens])

LegacyCall(row) ==
  LET state == Trim(TextOf(row.state))
      name == Trim(TextOf(row.name))
      ingredientsRaw == TextOf(row.ingredients)
      tokens == tokenizeIngredients(ingredientsRaw)
      flavor == ToLowerCase(Trim(TextOf(row.flavor_profile)))
  IN IF state = "" THEN NoCall
     ELSE Call(state,
               [diet |-> classifyDiet(row.diet),
                sweet |-> flavor = "sweet"
                          \/ detectSweetness(name, row.course, tokens, ingredientsRaw),
                prep |-> toNum(row.prep_time),
                cook |-> toNum(row.cook_time),
                tokens |-> tokens])

ManualCall(entry) ==
  LET ingredientsRaw == Join(entry.ingredients, ", ")
      tokens == tokenizeIngredients(ingredientsRaw)
  IN Call(entry.state,
          [diet |-> classifyDiet(Str(entry.diet)),
           sweet |-> IF IsNullish(entry.is_sweet)
                     THEN detectSweetness(entry.recipe_name, Undef, tokens, ingredientsRaw)
                     ELSE entry.is_sweet.b,
           prep |-> Coalesce(entry.prep_time_mins, Null),
           cook |-> Coalesce(entry.cook_time_mins, Null),
           tokens |-> tokens])

ApplyCall(acc, c) == IF c.call THEN addObservation(acc, c.stateRaw, c.details) ELSE acc

(***************************************************************************)
(* Finalize and join.                                                      *)
(***************************************************************************)
\* The comparator with the counts subtracted the other way round.
EntryBeforeAscending(a, b) == a.v < b.v \/ (a.v = b.v /\ LocaleLess(a.k, b.k))

\* The comparator (a, b) => (b[1] - a[1]) || a[0].localeCompare(b[0]) puts a first.
EntryBefore(a, b) == a.v > b.v \/ (a.v = b.v /\ LocaleLess(a.k, b.k))

RECURSIVE SortEntries(_)
SortEntries(S) ==
  IF S = {} THEN <<>>
  ELSE LET m == CHOOSE x \in S : \A y \in S \ {x} : EntryBefore(x, y)
       IN <<m>> \o SortEntries(S \ {m})

\* The ratio with 0 in place of null for an empty denominator.
RatioOrZero(sum, n) == IF n # 0 THEN Frac(sum, n) ELSE Num(0)

\* n ? sum / n : null
RatioOrNull(sum, n) == IF n # 0 THEN Frac(sum, n) ELSE Null

\* n ? sum / n : null for a sum of minutes
AverageOrNull(sum, n) == IF n # 0 THEN Over(sum, Num(n)) ELSE Null

\* The summary row of one bucket.
Summary(bucket) ==
  [state |-> bucket.state,
   dish_count |-> bucket.dish_count,
   pct_veg |-> RatioOrNull(bucket.veg, bucket.dish_count),
   pct_sweet |-> RatioOrNull(bucket.sweet, bucket.dish_count),
   avg_prep_time |-> AverageOrNull(bucket.prep_sum, bucket.prep_n),
   avg_cook_time |-> AverageOrNull(bucket.cook_sum, bucket.cook_n),
   pct_lentil_like |-> RatioOrNull(bucket.lentil_like, bucket.dish_count),
   pct_red_meat_like |-> RatioOrNull(bucket.red_meat_like, bucket.dish_count),
   pct_poultry |-> RatioOrNull(bucket.poultry, bucket.dish_count),
   pct_fish |-> RatioOrNull(bucket.fish, bucket.dish_count),
   pct_turmeric |-> RatioOrNull(bucket.turmeric, bucket.dish_count),
   ingredient_stats |->
     SortEntries({bucket.ingredient_stats[i] : i \in DOMAIN bucket.ingredient_stats})]

CuisineRowsOf(acc) ==
  LET keys == SortKeys(DOMAIN acc) IN [i \in DOMAIN keys |-> Summary(acc[keys[i]])]

\* map.get(state) ?? null on the map built from the summary rows
CuisineOf(rows, state) ==
  IF \E i \in DOMAIN rows : rows[i].state = state
  THEN rows[CHOOSE i \in DOMAIN rows :
              rows[i].state = state /\ \A j \in DOMAIN rows : rows[j].state = state => j <= i]
  ELSE Null

\* The join over the incidence regions only.
JoinedRowsOfInner(byState, rows) ==
  LET keys == SortKeys(DOMAIN byState)
  IN [i \in DOMAIN keys |->
        [state |-> keys[i],
         cancer |-> byState[keys[i]],
         cuisine |-> CuisineOf(rows, keys[i])]]

JoinedRowsOf(byState, rows) ==
  LET allStates == DOMAIN byState \cup {rows[i].state : i \in DOMAIN rows}
      keys == SortKeys(allStates)
  IN [i \in DOMAIN keys |->
        [state |-> keys[i],
         cancer |-> IF keys[i] \in DOMAIN byState THEN byState[keys[i]] ELSE Null,
         cuisine |-> CuisineOf(rows, keys[i])]]

(***************************************************************************)
(* The regression of the scatter plot (renderScatter).  Numbers are exact  *)
(* rationals; a square root that is not rational is kept as a term.        *)
(***************************************************************************)
\* The largest k in lo..hi with k * k <= n.
RECURSIVE ISqrtIn(_, _, _)
ISqrtIn(n, lo, hi) ==
  IF lo = hi THEN lo
  ELSE LET mid == (lo + hi + 1) \div 2
       IN IF mid * mid <= n THEN ISqrtIn(n, mid, hi) ELSE ISqrtIn(n, lo, mid - 1)

IsSquare(n) == LET k == ISqrtIn(n, 0, n) IN k * k = n

\* Math.sqrt of a number v >= 0
SqrtOf(v) ==
  IF IsSquare(NumOf(v)) /\ IsSquare(DenOf(v))
  THEN WithExp(Frac(ISqrtIn(NumOf(v), 0, NumOf(v)), ISqrtIn(DenOf(v), 0, DenOf(v))),
               ExpOf(v) \div 2)
  ELSE [t |-> "sqrt", of |-> v]

\* sum += value, from the first value to the last
RECURSIVE SumFrom(_, _)
SumFrom(sum, values) ==
  IF values = <<>> THEN sum ELSE SumFrom(Plus(sum, Head(values)), Tail(values))

SumOf(values) == SumFrom(Num(0), values)

\* d3.mean(values): undefined for no values.
Mean(values) == IF values = <<>> THEN Undef ELSE Over(SumOf(values), Num(Len(values)))

\* data.filter((d) => Number.isFinite(d.x) && Number.isFinite(d.y))
ValidPoints(data) == SelectSeq(data, LAMBDA d : IsFiniteNum(d.x) /\ IsFiniteNum(d.y))

\* varianceX === 0 ? 0 : covariance / varianceX
Slope(varianceX, covariance) ==
  IF varianceX = Num(0) THEN Num(0) ELSE Over(covariance, varianceX)

\* meanY - slope * meanX
Intercept(meanX, meanY, slope) == Minus(meanY, Times(slope, meanX))

\* varianceX === 0 || varianceY === 0 ? 0 : covariance / Math.sqrt(varianceX * varianceY)
Pearson(varianceX, varianceY, covariance) ==
  IF varianceX = Num(0) \/ varianceY = Num(0) THEN Num(0)
  ELSE LET root == SqrtOf(Times(varianceX, varianceY))
       IN IF IsFiniteNum(root) THEN Over(covariance, root)
          ELSE [t |-> "quot", num |-> covariance, den |-> root]

\* The residual taken as predicted minus actual.
ResidualOfPredictedMinusActual(d, slope, intercept) ==
  LET predicted == Plus(Times(slope, d.x), intercept)
  IN [state |-> d.state, actual |-> d.y, predicted |-> predicted,
      residual |-> Minus(predicted, d.y)]

\* residuals = valid.map((d) => { predicted = slope * d.x + intercept; ... })
ResidualOf(d, slope, intercept) ==
  LET predicted == Plus(Times(slope, d.x), intercept)
  IN [state |-> d.state, actual |-> d.y, predicted |-> predicted,
      residual |-> Minus(d.y, predicted)]

\* residuals.sort((a, b) => Math.abs(b.residual) - Math.abs(a.residual)), a
\* stable sort: an entry goes behind every entry that is not smaller.
RECURSIVE InsertResidual(_, _)
InsertResidual(sorted, e) ==
  IF sorted = <<>> THEN <<e>>
  ELSE IF LessThan(AbsNum(Head(sorted).residual), AbsNum(e.residual))
       THEN <<e>> \o sorted
       ELSE <<Head(sorted)>> \o InsertResidual(Tail(sorted), e)

RECURSIVE SortResiduals(_, _)
SortResiduals(sorted, rest) ==
  IF rest = <<>> THEN sorted
  ELSE SortResiduals(InsertResidual(sorted, Head(rest)), Tail(rest))

\* The test for too few samples, asking for two.
FewerThanTwo(valid) == Len(valid) <= 1

\* valid.length === 0
NoValidSample(valid) == Len(valid) = 0

\* The value renderScatter returns for its valid samples.
Metrics(valid) ==
  IF NoValidSample(valid) THEN Null
  ELSE LET xs == [i \in DOMAIN valid |-> valid[i].x]
           ys == [i \in DOMAIN valid |-> valid[i].y]
           meanX == Coalesce(Mean(xs), Num(0))
           meanY == Coalesce(Mean(ys), Num(0))
           varianceX ==
             Coalesce(Mean([i \in DOMAIN valid |->
                              Times(Minus(xs[i], meanX), Minus(xs[i], meanX))]), Num(0))
           varianceY ==
             Coalesce(Mean([i \in DOMAIN valid |->
                              Times(Minus(ys[i], meanY), Minus(ys[i], meanY))]), Num(0))
           covariance ==
             Coalesce(Mean([i \in DOMAIN valid |->
                              Times(Minus(xs[i], meanX), Minus(ys[i], meanY))]), Num(0))
           slope == Slope(varianceX, covariance)
           intercept == Intercept(meanX, meanY, slope)
           r == Pearson(varianceX, varianceY, covariance)
           residuals == [i \in DOMAIN valid |-> ResidualOf(valid[i], slope, intercept)]
       IN [slope |-> slope, intercept |-> intercept, r |-> r,
           residuals |-> SortResiduals(<<>>, residuals)]

\* renderScatter(config, data, labels): the returned metrics and what the
\* container shows.
renderScatter(data) ==
  LET valid == ValidPoints(data)
  IN [metrics |-> Metrics(valid),
      container |-> IF NoValidSample(valid) THEN "empty-state" ELSE "scatter-svg"]

(***************************************************************************)
(* The compare view (renderCompareView): metric lists, the ingredient      *)
(* universe and the discovery of correlated pairs.                         *)
(***************************************************************************)
cuisineMetrics ==
  <<"pct_veg", "pct_sweet", "pct_lentil_like", "pct_red_meat_like", "pct_poultry",
    "pct_fish", "pct_turmeric", "avg_prep_time", "avg_cook_time", "dish_count">>

cancerMetrics ==
  <<"incidence_per_100k_2019", "incidence_per_100k_2020", "incidence_per_100k_2021",
    "incidence_per_100k_2022", "incidence_2019", "incidence_2020", "incidence_2021",
    "incidence_2022", "incidence_cagr_19_22">>

MEASUREMENT_WORDS ==
  {"tablespoon", "tablespoons", "teaspoon", "teaspoons", "cup", "cups", "tbsp", "tsp",
   "gram", "grams", "g", "kg", "ml", "l", "litre", "liter", "handful", "pinch", "sprig",
   "sprigs", "dash", "slice", "slices", "piece", "pieces"}

FILTER_WORDS ==
  {"to", "taste", "as", "needed", "optional", "finely", "finely-chopped", "thinly",
   "roughly", "chopped", "diced", "sliced", "grated", "ground", "roasted", "powder",
   "paste", "fresh", "dry", "dried", "whole", "large", "small", "medium", "big", "little"}

\* words.join(' ')
RECURSIVE JoinWords(_)
JoinWords(words) ==
  IF words = <<>> THEN ""
  ELSE IF Len(words) = 1 THEN words[1]
  ELSE words[1] \o " " \o JoinWords(Tail(words))

\* text.split(/\s+/).filter(Boolean)
WordsOf(text) == SelectSeq(Split(CollapseSpaces(text), " "), LAMBDA w : w # "")

normalizeIngredientToken(token) ==
  IF token = "" THEN ""
  ELSE LET words == WordsOf(ToLowerCase(token))
           filtered ==
             SelectSeq(words, LAMBDA word :
               /\ word \notin MEASUREMENT_WORDS
               /\ word \notin FILTER_WORDS
               /\ Ch(word, 1) \notin DigitSet)
       IN IF Len(filtered) = 0 THEN Trim(ToLowerCase(token))
          ELSE Trim(JoinWords(filtered))

Min(a, b) == IF a < b THEN a ELSE b

\* map.set(key, value) on a map kept as a function
MapSet(map, key, value) ==
  [k \in DOMAIN map \cup {key} |-> IF k = key THEN value ELSE map[k]]

\* normalizedCounts of one cuisine row, entry by entry of ingredient_stats
RECURSIVE NormalizedCounts(_, _, _)
NormalizedCounts(counts, stats, dishCount) ==
  IF stats = <<>> THEN counts
  ELSE LET normalized == normalizeIngredientToken(Head(stats).k)
           capped == Min(Head(stats).v, dishCount)
           prev == IF normalized \in DOMAIN counts THEN counts[normalized] ELSE 0
       IN NormalizedCounts(
            IF normalized = "" THEN counts
            ELSE MapSet(counts, normalized, Min(dishCount, prev + capped)),
            Tail(stats), dishCount)

\* shareMap of one cuisine row: the share of its dishes that mention an
\* ingredient, for the ingredients of a share above 0.
ShareMap(row) ==
  LET dishCount == row.dish_count.n
      counts == NormalizedCounts(<<>>, row.ingredient_stats, dishCount)
      kept == {g \in DOMAIN counts : dishCount > 0 /\ Min(counts[g], dishCount) > 0}
  IN [g \in kept |-> Frac(Min(counts[g], dishCount), dishCount)]

StateShares(rows) ==
  [state \in {rows[i].state : i \in DOMAIN rows} |->
     ShareMap(rows[CHOOSE i \in DOMAIN rows :
                     rows[i].state = state /\ \A j \in DOMAIN rows : rows[j].state = state => j <= i])]

\* The entry of ingredientInfos for one ingredient.
IngredientInfo(name, rows, shares) ==
  LET having == SelectSeq(rows, LAMBDA row : name \in DOMAIN shares[row.state])
      states == {having[i].state : i \in DOMAIN having}
      totalShare == SumOf([i \in DOMAIN having |-> shares[having[i].state][name]])
  IN [name |-> name,
      states |-> [s \in states |-> shares[s][name]],
      averageShare |->
        IF Cardinality(states) # 0 THEN Over(totalShare, Num(Cardinality(states))) ELSE Num(0),
      stateCount |-> Cardinality(states)]

\* The comparator of ingredientInfos puts a first: larger average share,
\* then more states, then the name.
InfoBefore(a, b) ==
  IF a.averageShare # b.averageShare THEN LessThan(b.averageShare, a.averageShare)
  ELSE IF a.stateCount # b.stateCount THEN a.stateCount > b.stateCount
  ELSE LocaleLess(a.name, b.name)

RECURSIVE SortInfos(_)
SortInfos(S) ==
  IF S = {} THEN <<>>
  ELSE LET m == CHOOSE x \in S : \A y \in S \ {x} : InfoBefore(x, y)
       IN <<m>> \o SortInfos(S \ {m})

buildIngredientUniverse(rows) ==
  LET shares == StateShares(rows)
      names == UNION {DOMAIN shares[s] : s \in DOMAIN shares}
  IN [ingredientInfos |-> SortInfos({IngredientInfo(name, rows, shares) : name \in names}),
      stateShares |-> shares]

\* A selection of the cuisine side: a preset metric or an ingredient.
Preset(key) == [kind |-> "preset", key |-> key]
Ingredient(name) == [kind |-> "ingredient", name |-> name]

getCuisineValue(row, selection, stateIngredientShares) ==
  IF row = Null THEN Null
  ELSE IF selection.kind = "preset" THEN Coalesce(row[selection.key], Null)
  ELSE IF row.dish_count = Num(0) THEN Null
  ELSE IF row.state \notin DOMAIN stateIngredientShares THEN Num(0)
  ELSE IF selection.name \in DOMAIN stateIngredientShares[row.state]
       THEN stateIngredientShares[row.state][selection.name]
  ELSE Num(0)

\* entry.cancer?.[cancerMetric.key]
CancerValue(entry, key) == IF entry.cancer = Null THEN Undef ELSE entry.cancer[key]

\* The points of a pair of metrics: the joined records with both values.
PointsOf(joined, stateIngredientShares, selection, cancerKey) ==
  LET kept ==
        SelectSeq(joined, LAMBDA entry :
          /\ ~IsNullish(getCuisineValue(entry.cuisine, selection, stateIngredientShares))
          /\ ~IsNullish(CancerValue(entry, cancerKey)))
  IN [i \in DOMAIN kept |->
        [state |-> kept[i].state,
         x |-> getCuisineValue(kept[i].cuisine, selection, stateIngredientShares),
         y |-> CancerValue(kept[i], cancerKey)]]

\* computeScatter(points): the fit without the drawing, null for no finite
\* sample.
computeScatter(points) ==
  LET valid == ValidPoints(points)
  IN IF NoValidSample(valid) THEN Null ELSE [metrics |-> Metrics(valid)]

\* r * r, for comparing absolute values of r
SquareOfR(r) ==
  IF r.t = "quot" THEN Over(Times(r.num, r.num), r.den.of) ELSE Times(r, r)

\* The combos of one pair of metrics: none or one.
ComboOf(data, universe, cuisineCandidate, cancerMetric) ==
  LET points == PointsOf(data.joined, universe.stateShares, cuisineCandidate, cancerMetric)
  IN IF Len(points) < 6 THEN <<>>
     ELSE LET computation == computeScatter(points)
          IN IF computation = Null THEN <<>>
             ELSE <<[cuisine |-> cuisineCandidate, cancer |-> cancerMetric,
                     r |-> computation.metrics.r, sample |-> Len(points)]>>

\* combos.sort((a, b) => Math.abs(b.r) - Math.abs(a.r)), a stable sort: a
\* combo comes behind the combos of a larger |r| and behind the earlier combos
\* of the same |r|.
SortCombos(combos) ==
  LET squares == [i \in DOMAIN combos |-> SquareOfR(combos[i].r)]
      rank == [i \in DOMAIN combos |->
                 1 + Cardinality({j \in DOMAIN combos :
                                    \/ LessThan(squares[i], squares[j])
                                    \/ j < i /\ squares[j] = squares[i]})]
      Placed(ranks) ==
        [p \in DOMAIN combos |-> combos[CHOOSE i \in DOMAIN combos : ranks[i] = p]]
  IN CHOOSE sorted \in {Placed(ranks) : ranks \in {rank}} : TRUE

\* The candidates of the cuisine side: the presets, then the ingredients of
\* at least 6 states, the first 60 of them.
CuisineCandidates(universe) ==
  LET frequent == SelectSeq(universe.ingredientInfos, LAMBDA info : info.stateCount >= 6)
      ingredientCandidates == SubSeq(frequent, 1, Min(60, Len(frequent)))
  IN [i \in DOMAIN cuisineMetrics |-> Preset(cuisineMetrics[i])]
     \o [i \in DOMAIN ingredientCandidates |-> Ingredient(ingredientCandidates[i].name)]

\* All combos in the order of the two loops, before sorting.
AllCombos(data, universe) ==
  LET cuisineCandidates == CuisineCandidates(universe)
      nk == Len(cancerMetrics)
      found == SelectSeq([p \in 1..(Len(cuisineCandidates) * nk) |->
                            ComboOf(data, universe,
                                    cuisineCandidates[((p - 1) \div nk) + 1],
                                    cancerMetrics[((p - 1) % nk) + 1])],
                         LAMBDA combo : combo # <<>>)
  IN [i \in DOMAIN found |-> found[i][1]]

\* The combos kept in place of the first 18, the last 18.
LastCombos(combos) == SubSeq(combos, Len(combos) - Min(18, Len(combos)) + 1, Len(combos))

\* combos.slice(0, 18)
FirstCombos(combos) == SubSeq(combos, 1, Min(18, Len(combos)))

computeInterestingCombos(data) ==
  LET universe == buildIngredientUniverse(data.cuisine)
  IN CHOOSE kept \in {FirstCombos(SortCombos(combos)) :
                        combos \in {AllCombos(data, universe)}} : TRUE

(***************************************************************************)
(* The run of main() as a state machine.                                   *)
(*                                                                         *)
(* cancerCSV, archanaCSV, legacyCSV and manualJSON hold the rows read so   *)
(* far; a table ends wherever the run moves on to the next step.           *)
(***************************************************************************)
VARIABLES pc, cancerCSV, archanaCSV, legacyCSV, manualJSON,
          cancerByState, cancerRows, cuisineAcc, cuisineRows, joinedRows,
          written, error, fnCall, statted

\* The compare view: the data it was rendered with, what it derived from
\* them once (ingredient universe, suggested combos), its three controls and
\* the residual maps of the last update().
VARIABLES appData, ingredientUniverse, interestingCombos, cuisineSelect, cancerSelect,
          ingredientInput, lastCuisineMetric, lastCancerMetric, residualMap, residualInfo

viewVars == <<appData, ingredientUniverse, interestingCombos, cuisineSelect, cancerSelect,
              ingredientInput, lastCuisineMetric, lastCancerMetric, residualMap, residualInfo>>

vars == <<pc, cancerCSV, archanaCSV, legacyCSV, manualJSON,
          cancerByState, cancerRows, cuisineAcc, cuisineRows, joinedRows,
          written, error, fnCall, statted, viewVars>>

inputVars == <<cancerCSV, archanaCSV, legacyCSV, manualJSON>>
cancerVars == <<cancerByState, cancerRows>>
outputVars == <<cuisineRows, joinedRows, written, error>>

RowsRead == Len(cancerCSV) + Len(archanaCSV) + Len(legacyCSV) + Len(manualJSON)

Init ==
  /\ pc = "cancer"
  /\ cancerCSV = <<>> /\ archanaCSV = <<>> /\ legacyCSV = <<>> /\ manualJSON = <<>>
  /\ cancerByState = <<>>
  /\ cancerRows = <<>>
  /\ cuisineAcc = <<>>
  /\ cuisineRows = <<>>
  /\ joinedRows = <<>>
  /\ written = {}
  /\ error = Null
  /\ fnCall = [fn |-> "none"]
  /\ statted = <<>>
  /\ appData = Null
  /\ ingredientUniverse = Null
  /\ interestingCombos = <<>>
  /\ cuisineSelect = ""
  /\ cancerSelect = ""
  /\ ingredientInput = ""
  /\ lastCuisineMetric = Null
  /\ lastCancerMetric = Null
  /\ residualMap = <<>>
  /\ residualInfo = <<>>

\* for (const row of cancerCSV) { ... }
ReadCancerRow ==
  /\ pc = "cancer"
  /\ RowsRead < MaxRows
  /\ \E row \in CancerRowSet :
       /\ cancerCSV' = Append(cancerCSV, row)
       /\ cancerByState' = AddCancerRow(cancerByState, row)
  /\ UNCHANGED <<pc, archanaCSV, legacyCSV, manualJSON, cancerRows, cuisineAcc,
                 outputVars, fnCall, statted, viewVars>>

\* Growth and rates, the sort, the population check and the first write.
DeriveCancer ==
  /\ pc = "cancer"
  /\ LET derived == [k \in DOMAIN cancerByState |-> DeriveBucket(cancerByState[k])]
         rows == SortedValues(derived)
         missingPopulation == MissingPopulation(rows)
     IN /\ cancerByState' = derived
        /\ cancerRows' = rows
        /\ IF missingPopulation # <<>>
           THEN /\ error' = Str(MissingPopulationMessage(missingPopulation))
                /\ pc' = "failed"
                /\ written' = written
           ELSE /\ error' = error
                /\ pc' = "archana"
                /\ written' = written \cup {"cancer_by_state.json"}
  /\ UNCHANGED <<inputVars, cuisineAcc, cuisineRows, joinedRows, fnCall, statted, viewVars>>

\* for (const row of archanaCSV) { ... }
ReadArchanaRow ==
  /\ pc = "archana"
  /\ RowsRead < MaxRows
  /\ \E row \in ArchanaRowSet :
       /\ archanaCSV' = Append(archanaCSV, row)
       /\ cuisineAcc' = ApplyCall(cuisineAcc, ArchanaCall(row))
  /\ UNCHANGED <<pc, cancerCSV, legacyCSV, manualJSON, cancerVars, outputVars, fnCall, statted, viewVars>>

\* for (const row of legacyCSV) { ... }
ReadLegacyRow ==
  /\ pc \in {"archana", "legacy"}
  /\ RowsRead < MaxRows
  /\ \E row \in LegacyRowSet :
       /\ legacyCSV' = Append(legacyCSV, row)
       /\ cuisineAcc' = ApplyCall(cuisineAcc, LegacyCall(row))
  /\ pc' = "legacy"
  /\ UNCHANGED <<cancerCSV, archanaCSV, manualJSON, cancerVars, outputVars, fnCall, statted, viewVars>>

\* for (const entry of manualJSON) { ... }
ReadManualEntry ==
  /\ pc \in {"archana", "legacy", "manual"}
  /\ RowsRead < MaxRows
  /\ \E entry \in ManualRowSet :
       /\ manualJSON' = Append(manualJSON, entry)
       /\ cuisineAcc' = ApplyCall(cuisineAcc, ManualCall(entry))
  /\ pc' = "manual"
  /\ UNCHANGED <<cancerCSV, archanaCSV, legacyCSV, cancerVars, outputVars, fnCall, statted, viewVars>>

\* The summary rows and the second write.
FinalizeCuisine ==
  /\ pc \in {"archana", "legacy", "manual"}
  /\ cuisineRows' = CuisineRowsOf(cuisineAcc)
  /\ written' = written \cup {"cuisine_by_state.json"}
  /\ pc' = "join"
  /\ UNCHANGED <<inputVars, cancerVars, cuisineAcc, joinedRows, error, fnCall, statted, viewVars>>

\* The joined rows and the third write.
JoinOutputs ==
  /\ pc = "join"
  /\ joinedRows' = JoinedRowsOf(cancerByState, cuisineRows)
  /\ written' = written \cup {"joined_state_metrics.json"}
  /\ pc' = "guard"
  /\ UNCHANGED <<inputVars, cancerVars, cuisineAcc, cuisineRows, error, fnCall, statted, viewVars>>

Next ==
  \/ ReadCancerRow
  \/ DeriveCancer
  \/ ReadArchanaRow
  \/ ReadLegacyRow
  \/ ReadManualEntry
  \/ FinalizeCuisine
  \/ JoinOutputs

Spec == Init /\ [][Next]_vars

(***************************************************************************)
(* The size guard at the end of main().  The size statSync reports for a   *)
(* written file is an input of the model, drawn from sizes on both sides   *)
(* of the ceiling; statted holds the sizes reported so far.                *)
(***************************************************************************)
MaxOutputBytes == 1000000

OutputFiles == <<"cancer_by_state.json", "cuisine_by_state.json", "joined_state_metrics.json">>

FileSizes == {2, 500000, 999999, 1000000, 1000001, 1048576, 1048577}

\* The test against one mebibyte, the figure the README gives.
TooLargeMiB(size) == size > 1048576

\* size > 1_000_000
TooLarge(size) == size > MaxOutputBytes

TooLargeMessage(file, size) == file \o " too large: " \o ToString(size) \o " bytes"

\* One round of the loop over the three files.
StatFile ==
  /\ pc = "guard"
  /\ LET file == OutputFiles[Len(statted) + 1]
     IN /\ file \in written
        /\ \E size \in FileSizes :
             /\ statted' = Append(statted, [file |-> file, size |-> size])
             /\ IF TooLarge(size)
                THEN /\ error' = Str(TooLargeMessage(file, size))
                     /\ pc' = "failed"
                ELSE /\ error' = error
                     /\ pc' = IF Len(statted) + 1 = Len(OutputFiles) THEN "done" ELSE "guard"
  /\ UNCHANGED <<inputVars, cancerVars, cuisineAcc, cuisineRows, joinedRows, written, fnCall, viewVars>>

\* The run over empty tables, followed through the guard.
NextGuard ==
  \/ DeriveCancer
  \/ FinalizeCuisine
  \/ JoinOutputs
  \/ StatFile

SpecGuard == Init /\ [][NextGuard]_vars

(***************************************************************************)
(* The pure functions applied to bounded inputs.                           *)
(***************************************************************************)
\* Largest dish_count of a bucket handed to Summary.
MaxDishes == 2

CagrValues ==
  {Num(-4), Num(0), Num(1), Num(2), Num(8), Frac(1, 2), NaN, Inf(1), Inf(-1)}
\* years is a finite span of time; the run itself passes 3.
CagrYears == {Num(-1), Num(0), Num(1), Num(2), Num(3), Frac(1, 2), Frac(3, 2)}

StatsSet ==
  {<<>>, <<[k |-> "rice", v |-> 1]>>,
   <<[k |-> "sugar", v |-> 1], [k |-> "rice", v |-> 1], [k |-> "milk", v |-> 2]>>}

BucketSet ==
  {[state |-> "Goa", dish_count |-> d, veg |-> a, sweet |-> d - a,
    prep_sum |-> Num(10 * b), prep_n |-> b, cook_sum |-> Num(15 * (d - b)), cook_n |-> d - b,
    lentil_like |-> b, red_meat_like |-> d - b, poultry |-> c, fish |-> d - c,
    turmeric |-> a, ingredient_stats |-> s] :
     <<d, a, b, c, s>> \in
       {q \in (0..MaxDishes) \X (0..MaxDishes) \X (0..MaxDishes) \X (0..MaxDishes) \X StatsSet :
          q[2] <= q[1] /\ q[3] <= q[1] /\ q[4] <= q[1]}}

\* A behaviour of the function specification applies one function to one
\* input; the functions keep no state between calls.
NoCallYet == fnCall.fn = "none"

CallCagr ==
  /\ NoCallYet
  /\ \E v0 \in CagrValues, v1 \in CagrValues, years \in CagrYears :
       fnCall' = [fn |-> "cagr", v0 |-> v0, v1 |-> v1, years |-> years,
                  result |-> cagr(v0, v1, years)]
  /\ UNCHANGED <<pc, inputVars, cancerVars, cuisineAcc, outputVars, statted, viewVars>>

CallSummary ==
  /\ NoCallYet
  /\ \E bucket \in BucketSet :
       fnCall' = [fn |-> "Summary", bucket |-> bucket, result |-> Summary(bucket)]
  /\ UNCHANGED <<pc, inputVars, cancerVars, cuisineAcc, outputVars, statted, viewVars>>

\* Diet labels as the recipe tables carry them, and the absent ones.
DietInputs ==
  {Undef, Null, Str(""), Str(" "), Str("Vegetarian"), Str("vegetarian"),
   Str("Non Vegeterian"), Str("non-vegetarian"), Str("NON VEG"),
   Str("High Protein Non Vegetarian"), Str("Eggetarian"), Str("Veg with egg"),
   Str("egg, non veg"), Str("High Protein Vegetarian"), Str("Vegan"),
   Str("No Onion No Garlic (Sattvic)"), Str("Diabetic Friendly"),
   Str("Sugar Free Diet"), Str("nOn"), Str("EGG")}

CallClassifyDiet ==
  /\ NoCallYet
  /\ \E rawDiet \in DietInputs :
       fnCall' = [fn |-> "classifyDiet", rawDiet |-> rawDiet,
                  result |-> classifyDiet(rawDiet)]
  /\ UNCHANGED <<pc, inputVars, cancerVars, cuisineAcc, outputVars, statted, viewVars>>

\* Largest number of samples handed to renderScatter.
MaxSamples == 3

\* Samples on the lines y = 2x and y = 5 - x, samples off both, and samples
\* with a value that is not finite.
ScatterPointSet ==
  {[state |-> "A", x |-> Num(1), y |-> Num(2)],
   [state |-> "B", x |-> Num(2), y |-> Num(4)],
   [state |-> "C", x |-> Num(3), y |-> Num(6)],
   [state |-> "D", x |-> Num(1), y |-> Num(4)],
   [state |-> "E", x |-> Num(2), y |-> Num(3)],
   [state |-> "F", x |-> Num(3), y |-> Num(2)],
   [state |-> "G", x |-> Num(2), y |-> Num(5)],
   [state |-> "H", x |-> Num(3), y |-> Num(4)],
   [state |-> "P", x |-> NumE(1, -100), y |-> NumE(2, -100)],
   [state |-> "Q", x |-> NumE(2, -100), y |-> NumE(4, -100)],
   [state |-> "R", x |-> NumE(2, -100), y |-> NumE(5, -100)],
   [state |-> "S", x |-> NumE(3, -100), y |-> NumE(2, -100)],
   [state |-> "I", x |-> NaN, y |-> Num(2)],
   [state |-> "J", x |-> Num(1), y |-> Inf(1)],
   [state |-> "K", x |-> Inf(-1), y |-> NaN]}

CallRenderScatter ==
  /\ NoCallYet
  /\ \E n \in 0..MaxSamples :
       \E data \in [1..n -> ScatterPointSet] :
         fnCall' = [fn |-> "renderScatter", data |-> data, result |-> renderScatter(data)]
  /\ UNCHANGED <<pc, inputVars, cancerVars, cuisineAcc, outputVars, statted, viewVars>>

\* Cuisine labels, recipe names and courses: absent, empty, emptied by the
\* normalization, matching no rule, one rule, or rules of two regions.
StateTexts ==
  {Undef, Null, Str(""), Str("Recipes"), Str(" 123 "), Str("Continental"),
   Str("North Indian Recipes"), Str("Goan Recipes"), Str("Bengali Cuisine"),
   Str("Kathiyawadi"), Str("Hyderabadi"), Str("Konkani"), Str("Malvani Goan"),
   Str("Chattisgarh"), Str("Chhattisgarh Recipes"), Str("Naga Cuisine"),
   Str("Nagar Haveli"), Str("Oriya Recipes"), Str("PUNJABI"),
   Str("Traditional Kashmiri Pandit"), Str("Coastal Karnataka"), Str("Goa-Style")}

CallInferStateFromText ==
  /\ NoCallYet
  /\ \E rawText \in StateTexts :
       fnCall' = [fn |-> "inferStateFromText", rawText |-> rawText,
                  result |-> inferStateFromText(rawText)]
  /\ UNCHANGED <<pc, inputVars, cancerVars, cuisineAcc, outputVars, statted, viewVars>>

\* Dish names, courses, and ingredient texts with the tokens made of them.
SweetNames == {"Dal Fry", "Kolkata Style KHEER", "Gulab Jamun", "Masala Dosa"}
SweetCourses ==
  {Undef, Str(""), Str("Main Course"), Str("Dessert"), Str("Indian SWEETS"), Str("Snack")}
SweetIngredients ==
  {[raw |-> "", tokens |-> <<>>],
   [raw |-> "Rice, Salt", tokens |-> <<"rice", "salt">>],
   [raw |-> "Milk, Sugar", tokens |-> <<"milk", "sugar">>],
   [raw |-> "Condensed Milk", tokens |-> <<"condensed milk">>],
   [raw |-> "Condensed-Milk, Rice", tokens |-> <<"condensed milk", "rice">>],
   [raw |-> "Palm-Jaggery", tokens |-> <<"palm jaggery">>],
   [raw |-> "Milk (sweetened with honey)", tokens |-> <<"milk">>],
   [raw |-> "Su-gar", tokens |-> <<"su gar">>]}

CallDetectSweetness ==
  /\ NoCallYet
  /\ \E name \in SweetNames, course \in SweetCourses, ing \in SweetIngredients :
       fnCall' = [fn |-> "detectSweetness", name |-> name, course |-> course,
                  tokens |-> ing.tokens, rawIngredients |-> ing.raw,
                  result |-> detectSweetness(name, course, ing.tokens, ing.raw)]
  /\ UNCHANGED <<pc, inputVars, cancerVars, cuisineAcc, outputVars, statted, viewVars>>

\* Region cells: alias keys, alias targets, names outside the table, padded
\* and empty cells, and names of inherited properties.
NormInputs ==
  DOMAIN normMap \cup {normMap[k] : k \in DOMAIN normMap}
  \cup {" Orissa ", "Pondicherry  ", "  NCT of Delhi", "Goa", " Goa ", "Bombay", "orissa",
        "", "   ", "-1", " -1 ", "constructor", " toString", "valueOf ", "__proto__"}

CallNorm ==
  /\ NoCallYet
  /\ \E s \in NormInputs :
       fnCall' = [fn |-> "norm", s |-> s, result |-> normValue(s),
                  again |-> normAgain(normValue(s))]
  /\ UNCHANGED <<pc, inputVars, cancerVars, cuisineAcc, outputVars, statted, viewVars>>

NextFn ==
  \/ CallCagr
  \/ CallSummary
  \/ CallClassifyDiet
  \/ CallRenderScatter
  \/ CallInferStateFromText
  \/ CallDetectSweetness
  \/ CallNorm

SpecFn == Init /\ [][NextFn]_vars

(***************************************************************************)
(* computeInterestingCombos on bounded data.                               *)
(***************************************************************************)
MaxJoined == 7

RegionNames ==
  <<"Assam", "Bihar", "Goa", "Gujarat", "Kerala", "Odisha", "Punjab", "Sikkim", "Tripura">>

\* The cuisine summary of region i, with or without timed dishes: one or two
\* dishes, each share 0 or 1.
CuisineRowAt(i, timed) ==
  LET dishes == 1 + (i % 2)
      Pct(m) == Num(((i * m + m) % 5) % 2)
  IN [state |-> RegionNames[i],
      dish_count |-> Num(dishes),
      pct_veg |-> Pct(1),
      pct_sweet |-> Pct(2),
      pct_lentil_like |-> Pct(3),
      pct_red_meat_like |-> Pct(4),
      pct_poultry |-> Pct(5),
      pct_fish |-> Pct(6),
      pct_turmeric |-> Pct(7),
      avg_prep_time |-> IF timed THEN Num(10 + ((i * i) % 3)) ELSE Null,
      avg_cook_time |-> IF timed THEN Num(20 + (i % 3)) ELSE Null,
      ingredient_stats |->
        (IF i = 3 THEN <<>> ELSE <<[k |-> "rice", v |-> dishes]>>)
        \o (IF i % 2 = 0 THEN <<[k |-> "2 cups rice", v |-> 1]>>
            ELSE <<[k |-> "salt to taste", v |-> 1]>>)
        \o (IF i <= 5 THEN <<[k |-> "ghee", v |-> 1]>> ELSE <<>>)]

\* The incidence row of region i; the second region has no growth rate.
CancerRowAt(i) ==
  LET Value(k) == Num((i * k) % 4)
  IN [state |-> RegionNames[i],
      incidence_per_100k_2019 |-> Value(1),
      incidence_per_100k_2020 |-> Value(2),
      incidence_per_100k_2021 |-> Value(3),
      incidence_per_100k_2022 |-> Value(4),
      incidence_2019 |-> Value(5),
      incidence_2020 |-> Value(6),
      incidence_2021 |-> Value(7),
      incidence_2022 |-> Value(8),
      incidence_cagr_19_22 |-> IF i = 2 THEN Null ELSE Num(((i * 2) % 3) - 1)]

\* The data of the view for n regions: region gap has no row of the given
\* kind, or for the kind "infinite" a rate that was read as Infinity (no
\* region for gap = 0); region untimed has no timed dish.
CompareData(n, gap, kind, untimed) ==
  LET joined ==
        [i \in 1..n |->
           [state |-> RegionNames[i],
            cancer |-> IF kind = "cancer" /\ gap = i THEN Null
                       ELSE IF kind = "infinite" /\ gap = i
                       THEN [CancerRowAt(i) EXCEPT !.incidence_per_100k_2022 = Inf(1)]
                       ELSE CancerRowAt(i),
            cuisine |-> IF kind = "cuisine" /\ gap = i THEN Null
                        ELSE CuisineRowAt(i, untimed # i)]]
      withCuisine == SelectSeq(joined, LAMBDA entry : entry.cuisine # Null)
  IN [joined |-> joined,
      cuisine |-> [i \in DOMAIN withCuisine |-> withCuisine[i].cuisine]]

CallComputeInterestingCombos ==
  /\ NoCallYet
  /\ \E n \in (MaxJoined - 2)..MaxJoined :
       \E gap \in 0..n, kind \in {"cancer", "cuisine"}, untimed \in 0..n :
         LET data == CompareData(n, gap, kind, untimed)
         IN fnCall' = [fn |-> "computeInterestingCombos", data |-> data,
                       result |-> computeInterestingCombos(data)]
  /\ UNCHANGED <<pc, inputVars, cancerVars, cuisineAcc, outputVars, statted, viewVars>>

NextCombos == CallComputeInterestingCombos

SpecCombos == Init /\ [][NextCombos]_vars

(***************************************************************************)
(* The aggregation of a list of manual entries as a function of the list:  *)
(* the addObservation calls of the loop in the order of the list, then     *)
(* finalize.                                                               *)
(***************************************************************************)
\* Number of entries of one list.
MaxCalls == 3

\* Manual entries; a JSON number may be as large as 1e100.
OrderEntrySet == {
  [state |-> "Kerala", recipe_name |-> "Avial", diet |-> "vegetarian",
   is_sweet |-> Bool(FALSE), prep_time_mins |-> Num(10), cook_time_mins |-> Num(20),
   ingredients |-> <<"Rice", "Ghee">>],
  [state |-> "Kerala", recipe_name |-> "Fish curry", diet |-> "non-vegetarian",
   is_sweet |-> Bool(FALSE), prep_time_mins |-> Undef, cook_time_mins |-> Num(30),
   ingredients |-> <<"Fish", "Ghee">>],
  [state |-> " Orissa ", recipe_name |-> "Pakhala", diet |-> "vegetarian",
   is_sweet |-> Bool(FALSE), prep_time_mins |-> NumE(1, 100), cook_time_mins |-> Undef,
   ingredients |-> <<"Rice">>],
  [state |-> "Odisha", recipe_name |-> "Dalma", diet |-> "vegetarian",
   is_sweet |-> Bool(FALSE), prep_time_mins |-> NumE(-1, 100), cook_time_mins |-> Num(15),
   ingredients |-> <<"Dal">>],
  [state |-> "Odisha", recipe_name |-> "Kheer", diet |-> "vegetarian",
   is_sweet |-> Bool(TRUE), prep_time_mins |-> Num(1), cook_time_mins |-> Num(45),
   ingredients |-> <<"Rice", "Dal">>],
  [state |-> "-1", recipe_name |-> "Unknown", diet |-> "vegetarian",
   is_sweet |-> Bool(FALSE), prep_time_mins |-> Num(5), cook_time_mins |-> Num(5),
   ingredients |-> <<"Rice">>]
}

OrderCalls == [entry \in OrderEntrySet |-> ManualCall(entry)]

\* for (const entry of manualJSON) { ... addObservation(...) }
RECURSIVE ObserveEntries(_, _)
ObserveEntries(acc, entries) ==
  IF entries = <<>> THEN acc
  ELSE ObserveEntries(ApplyCall(acc, OrderCalls[Head(entries)]), Tail(entries))

\* The summary rows the run writes for a list of manual entries.
Aggregate(entries) == CuisineRowsOf(ObserveEntries(<<>>, entries))

CallAggregate ==
  /\ NoCallYet
  /\ \E n \in 1..MaxCalls : \E entries \in [1..n -> OrderEntrySet] :
       fnCall' = [fn |-> "aggregate", entries |-> entries, result |-> Aggregate(entries)]
  /\ UNCHANGED <<pc, inputVars, cancerVars, cuisineAcc, outputVars, statted, viewVars>>

NextOrder == CallAggregate

SpecOrder == Init /\ [][NextOrder]_vars

(***************************************************************************)
(* The compare view as a state machine: renderCompareView, then the        *)
(* listeners of its controls.                                              *)
(***************************************************************************)
INGREDIENT_SELECT_VALUE == "__ingredient__"

\* list.find(test), undefined for no match
FindInfo(list, Test(_)) ==
  LET hits == SelectSeq(list, Test) IN IF hits = <<>> THEN Undef ELSE Head(hits)

resolveIngredient(value, list) ==
  LET normalized == normalizeIngredientToken(Trim(value))
      direct == FindInfo(list, LAMBDA info : info.name = normalized)
      fallback == FindInfo(list, LAMBDA info : Includes(info.name, normalized))
      fuzzy == FindInfo(list, LAMBDA info : Includes(normalized, info.name))
  IN IF normalized = "" THEN Null
     ELSE IF direct # Undef THEN direct
     ELSE IF fallback # Undef THEN fallback
     ELSE Coalesce(fuzzy, Null)

\* The selection getSelectedCuisineMetric returns, or null.
getSelectedCuisineMetric(select, input, list) ==
  IF select = INGREDIENT_SELECT_VALUE
  THEN LET info == resolveIngredient(input, list)
       IN IF info = Null THEN Null ELSE Ingredient(info.name)
  ELSE IF \E i \in DOMAIN cuisineMetrics : cuisineMetrics[i] = select THEN Preset(select)
  ELSE Null

\* scatterMetrics.residuals.forEach((item) => { ...set(item.state, ...) })
RECURSIVE SetResiduals(_, _, _)
SetResiduals(maps, items, points) ==
  IF items = <<>> THEN maps
  ELSE LET item == Head(items)
           at == {i \in DOMAIN points : points[i].state = item.state}
           base == points[CHOOSE i \in at : \A j \in at : j <= i]
       IN CHOOSE filled \in
            {SetResiduals(next, Tail(items), points) :
               next \in
                 {IF at = {} THEN maps
                  ELSE [residualMap |-> MapSet(maps.residualMap, item.state, item.residual),
                        residualInfo |->
                          MapSet(maps.residualInfo, item.state,
                                 [state |-> item.state, actual |-> item.actual,
                                  predicted |-> item.predicted, residual |-> item.residual,
                                  cuisine |-> base.x])]}} : TRUE

\* The view as update() finds it.
View ==
  [data |-> appData, universe |-> ingredientUniverse, cuisineSelect |-> cuisineSelect,
   cancerSelect |-> cancerSelect, ingredientInput |-> ingredientInput,
   residualMap |-> residualMap, residualInfo |-> residualInfo]

\* The two maps after the forEach over the residuals of the fit, for the
\* points of the selection; as they were if there is no point or no fit.
FilledMaps(maps, points) ==
  IF Len(points) = 0 THEN maps
  ELSE CHOOSE filled \in
         {IF scatterMetrics = Null THEN maps
          ELSE SetResiduals(maps, scatterMetrics.residuals, points) :
            scatterMetrics \in {renderScatter(points).metrics}} : TRUE

\* update() once the cuisine metric is known.
updateWith(view, maps, cuisineMetric) ==
  CHOOSE after \in
    {[ingredientInput |->
        IF cuisineMetric # Null /\ cuisineMetric.kind = "ingredient"
        THEN cuisineMetric.name ELSE view.ingredientInput,
      lastCuisineMetric |-> cuisineMetric,
      lastCancerMetric |-> view.cancerSelect,
      residualMap |-> filled.residualMap,
      residualInfo |-> filled.residualInfo] :
       filled \in
         {IF cuisineMetric = Null THEN maps
          ELSE CHOOSE f \in
                 {FilledMaps(maps, points) :
                    points \in {PointsOf(view.data.joined, view.universe.stateShares,
                                         cuisineMetric, view.cancerSelect)}} : TRUE}} : TRUE

\* update() from the given residual maps: what it leaves in the input, in
\* lastCuisineMetric and lastCancerMetric and in the two maps.
updateFrom(view, maps) ==
  CHOOSE after \in
    {updateWith(view, maps, cuisineMetric) :
       cuisineMetric \in {getSelectedCuisineMetric(view.cuisineSelect, view.ingredientInput,
                                                    view.universe.ingredientInfos)}} : TRUE

\* update() with the maps of the update before left in place.
updateKeepingEntries(view) ==
  updateFrom(view, [residualMap |-> view.residualMap, residualInfo |-> view.residualInfo])

\* update(): residualMap = new Map(); residualInfo = new Map(); ...
update(view) == updateFrom(view, [residualMap |-> <<>>, residualInfo |-> <<>>])

\* The variables update() writes.
Updated(view) ==
  \E after \in {update(found) : found \in {view}} :
    /\ ingredientInput' = after.ingredientInput
    /\ lastCuisineMetric' = after.lastCuisineMetric
    /\ lastCancerMetric' = after.lastCancerMetric
    /\ residualMap' = after.residualMap
    /\ residualInfo' = after.residualInfo

\* The data sets of the view: no region at all, or MaxJoined regions with
\* one of them short of a row or of a finite rate.
ViewDataSet ==
  {CompareData(0, 0, "cancer", 0), CompareData(MaxJoined, 0, "cancer", 1),
   CompareData(MaxJoined, 2, "cuisine", 1), CompareData(MaxJoined, 3, "infinite", 4)}

\* What the user picks and types.
CuisineChoices == {INGREDIENT_SELECT_VALUE, "pct_veg", "avg_prep_time"}
CancerChoices == {"incidence_per_100k_2022", "incidence_cagr_19_22"}
IngredientTexts == {"", "Rice", "salt to taste", "gh", "zzz"}

Rendered == appData # Null

\* renderCompareView(root, data), up to and including its first update().
RenderCompareView ==
  /\ ~Rendered
  /\ \E d \in ViewDataSet : \E u \in {buildIngredientUniverse(d.cuisine)} :
       \E onion \in {resolveIngredient("onion", u.ingredientInfos)} :
         LET defaultIngredient ==
               IF onion # Null THEN onion
               ELSE IF u.ingredientInfos # <<>> THEN u.ingredientInfos[1] ELSE Null
             input == IF defaultIngredient # Null THEN defaultIngredient.name ELSE ""
         IN /\ appData' = d
            /\ ingredientUniverse' = u
            /\ interestingCombos' = computeInterestingCombos(d)
            /\ cuisineSelect' = INGREDIENT_SELECT_VALUE
            /\ cancerSelect' = "incidence_per_100k_2022"
            /\ Updated([data |-> d, universe |-> u,
                        cuisineSelect |-> INGREDIENT_SELECT_VALUE,
                        cancerSelect |-> "incidence_per_100k_2022",
                        ingredientInput |-> input,
                        residualMap |-> <<>>, residualInfo |-> <<>>])
  /\ UNCHANGED <<pc, inputVars, cancerVars, cuisineAcc, outputVars, fnCall, statted>>

\* cuisineSelect.addEventListener('change', update)
OnCuisineChange ==
  /\ Rendered
  /\ \E value \in CuisineChoices \ {cuisineSelect} :
       /\ cuisineSelect' = value
       /\ Updated([View EXCEPT !.cuisineSelect = value])
  /\ UNCHANGED <<pc, inputVars, cancerVars, cuisineAcc, outputVars, fnCall, statted,
                 appData, ingredientUniverse, interestingCombos, cancerSelect>>

\* cancerSelect.addEventListener('change', update)
OnCancerChange ==
  /\ Rendered
  /\ \E value \in CancerChoices \ {cancerSelect} :
       /\ cancerSelect' = value
       /\ Updated([View EXCEPT !.cancerSelect = value])
  /\ UNCHANGED <<pc, inputVars, cancerVars, cuisineAcc, outputVars, fnCall, statted,
                 appData, ingredientUniverse, interestingCombos, cuisineSelect>>

\* ingredientInput.addEventListener('input', ...): the typed text is in the
\* input, the handler only rewrites the ingredient summary.
OnIngredientInput ==
  /\ Rendered
  /\ \E text \in IngredientTexts \ {ingredientInput} : ingredientInput' = text
  /\ UNCHANGED <<pc, inputVars, cancerVars, cuisineAcc, outputVars, fnCall, statted,
                 appData, ingredientUniverse, interestingCombos, cuisineSelect, cancerSelect,
                 lastCuisineMetric, lastCancerMetric, residualMap, residualInfo>>

\* ingredientInput.addEventListener('change', update), and the same on the
\* Enter key.
OnIngredientChange ==
  /\ Rendered
  /\ Updated(View)
  /\ UNCHANGED <<pc, inputVars, cancerVars, cuisineAcc, outputVars, fnCall, statted,
                 appData, ingredientUniverse, interestingCombos, cuisineSelect, cancerSelect>>

\* A click on a combo card: applyComboSelection(combo).
OnComboClick ==
  /\ Rendered
  /\ \E index \in DOMAIN interestingCombos :
       LET combo == interestingCombos[index]
           select == IF combo.cuisine.kind = "preset" THEN combo.cuisine.key
                     ELSE INGREDIENT_SELECT_VALUE
           input == IF combo.cuisine.kind = "preset" THEN ingredientInput
                    ELSE combo.cuisine.name
       IN /\ cuisineSelect' = select
          /\ cancerSelect' = combo.cancer
          /\ Updated([View EXCEPT !.cuisineSelect = select, !.cancerSelect = combo.cancer,
                                  !.ingredientInput = input])
  /\ UNCHANGED <<pc, inputVars, cancerVars, cuisineAcc, outputVars, fnCall, statted,
                 appData, ingredientUniverse, interestingCombos>>

NextCompare ==
  \/ RenderCompareView
  \/ OnCuisineChange
  \/ OnCancerChange
  \/ OnIngredientInput
  \/ OnIngredientChange
  \/ OnComboClick

SpecCompare == Init /\ [][NextCompare]_vars


(***************************************************************************)
(* Properties.                                                             *)
(***************************************************************************)
\* The canonical key of a raw spelling, read off the alias table.
AliasKey(raw) ==
  LET t == Trim(raw) IN IF t \in DOMAIN normMap THEN normMap[t] ELSE t

\* The incidence rows read so far that contribute to region key.
ContributingRows(key) ==
  {i \in DOMAIN cancerCSV :
     rawStateOf(cancerCSV[i]) # "" /\ AliasKey(rawStateOf(cancerCSV[i])) = key}

\* A yearly cell that is missing: absent, empty or not a finite number.
IsMissingCell(cell) == toNum(cell) = Null

HasMissingCell(key, y) ==
  \E i \in ContributingRows(key) : IsMissingCell(cancerCSV[i].cells[y])

\* C1: once the incidence rows are aggregated, a region's total for a year is
\* null whenever one of the region's rows had a missing value for that year,
\* whatever the position of that row among the region's rows.
C1_NullPropagates ==
  pc # "cancer" =>
    \A key \in DOMAIN cancerByState : \A y \in Years :
      HasMissingCell(key, y) => cancerByState[key].incidence[y] = Null

\* The call of addObservation each row of the input alphabets leads to.
ArchanaCalls == [row \in ArchanaRowSet |-> ArchanaCall(row)]
LegacyCalls == [row \in LegacyRowSet |-> LegacyCall(row)]
ManualCalls == [entry \in ManualRowSet |-> ManualCall(entry)]

\* The calls of addObservation made so far, as <<source, index, stateRaw>>.
CallsMade ==
  {<<"archana", i, ArchanaCalls[archanaCSV[i]].stateRaw>> :
     i \in {j \in DOMAIN archanaCSV : ArchanaCalls[archanaCSV[j]].call}}
  \cup {<<"legacy", i, LegacyCalls[legacyCSV[i]].stateRaw>> :
          i \in {j \in DOMAIN legacyCSV : LegacyCalls[legacyCSV[j]].call}}
  \cup {<<"manual", i, ManualCalls[manualJSON[i]].stateRaw>> :
          i \in {j \in DOMAIN manualJSON : ManualCalls[manualJSON[j]].call}}

CallsTo(key) == {c \in CallsMade : AliasKey(c[3]) = key}

CalledKeys == {AliasKey(c[3]) : c \in CallsMade} \ {"", "-1"}

Finalized == pc \in {"join", "guard"}

\* C2: in the finalized cuisine output every region called under any of its
\* spellings has exactly one summary, whose dish_count is the number of
\* observations made under all those spellings (2 for one observation under
\* R1 and one under R2), and no two rows carry keys that alias to one region.
C2_AliasesMerge ==
  Finalized =>
    /\ \A i, j \in DOMAIN cuisineRows :
         AliasKey(cuisineRows[i].state) = AliasKey(cuisineRows[j].state) => i = j
    /\ LET keyed == {<<c, AliasKey(c[3])>> : c \in CallsMade}
           keys == {k[2] : k \in keyed} \ {"", "-1"}
       IN \A key \in keys :
            \E i \in DOMAIN cuisineRows :
              /\ cuisineRows[i].state = key
              /\ cuisineRows[i].dish_count =
                   Cardinality({k \in keyed : k[2] = key})

\* C2 witness: two observations under different spellings of one region
\* ended up in a single summary with dish_count 2.
C2_Witness ==
  /\ Finalized
  /\ Len(cuisineRows) = 1
  /\ cuisineRows[1].dish_count = 2
  /\ Cardinality({c[3] : c \in CallsTo(cuisineRows[1].state)}) = 2

\* The region keys of the output collections written so far.
OutputKeys ==
  (IF "cancer_by_state.json" \in written
   THEN {cancerRows[i].state : i \in DOMAIN cancerRows} ELSE {})
  \cup (IF "cuisine_by_state.json" \in written
        THEN {cuisineRows[i].state : i \in DOMAIN cuisineRows} ELSE {})
  \cup (IF "joined_state_metrics.json" \in written
        THEN {joinedRows[i].state : i \in DOMAIN joinedRows} ELSE {})

\* C3: every region key of a written output collection is a region of the
\* reference vocabulary (a region with a population figure).
C3_KeysInVocabulary == OutputKeys \subseteq DOMAIN STATE_POPULATION_2021

StatesOf(rows) == {rows[i].state : i \in DOMAIN rows}

\* The row of a region in a summary collection, or null.
RowOf(rows, state) ==
  IF state \in StatesOf(rows)
  THEN rows[CHOOSE i \in DOMAIN rows : rows[i].state = state] ELSE Null

\* C4: the joined output has exactly one record per region of the incidence
\* or cuisine summaries and none for any other region; each side of a record
\* is that region's summary when it exists and null otherwise.
C4_JoinComplete ==
  pc = "guard" =>
    /\ StatesOf(joinedRows) = StatesOf(cancerRows) \cup StatesOf(cuisineRows)
    /\ \A i, j \in DOMAIN joinedRows : joinedRows[i].state = joinedRows[j].state => i = j
    /\ \A i \in DOMAIN joinedRows :
         /\ joinedRows[i].cancer = RowOf(cancerRows, joinedRows[i].state)
         /\ joinedRows[i].cuisine = RowOf(cuisineRows, joinedRows[i].state)
         /\ joinedRows[i].cancer # Null \/ joinedRows[i].cuisine # Null

\* C4 witness: a join with a region on both sides and a region on one side.
C4_Witness ==
  /\ pc = "guard"
  /\ \E i \in DOMAIN joinedRows : joinedRows[i].cancer # Null /\ joinedRows[i].cuisine # Null
  /\ \E i \in DOMAIN joinedRows : joinedRows[i].cancer = Null \/ joinedRows[i].cuisine = Null

\* The aggregated regions without a population figure.
MissingRegions == {k \in DOMAIN cancerByState : IsNullish(cancerByState[k].population)}

IsIgnoredCell(cell) == IsNullish(cell) \/ Trim(cell.s) \in {"", "-1"}

\* The step reads a row whose region cell is missing, empty or the sentinel.
IgnoredRowRead ==
  \/ cancerCSV' # cancerCSV /\ IsIgnoredCell(cancerCSV'[Len(cancerCSV')].State_UT)
  \/ legacyCSV' # legacyCSV /\ IsIgnoredCell(legacyCSV'[Len(legacyCSV')].state)
  \/ manualJSON' # manualJSON /\ IsIgnoredCell(Str(manualJSON'[Len(manualJSON')].state))

\* C6: a row whose region is missing, empty after trimming or "-1" is
\* dropped, in the incidence table and in the recipe tables alike: reading it
\* creates no bucket and changes no bucket.
C6_IgnoredRowsDropped ==
  [][IgnoredRowRead => (cancerByState' = cancerByState /\ cuisineAcc' = cuisineAcc)]_vars

\* A recipe row whose region cannot be inferred from cuisine, name or course.
Unresolvable(row) ==
  /\ inferStateFromText(row.cuisine) = Null
  /\ inferStateFromText(row.recipe_name) = Null
  /\ inferStateFromText(row.course) = Null

\* C7: reading a recipe row whose region is inferred from none of its cuisine
\* label, recipe name and course leaves every accumulator as it was: none is
\* created and no count, sum or ingredient frequency changes.
C7_UnresolvableSkipped ==
  [][(archanaCSV' # archanaCSV /\ Unresolvable(archanaCSV'[Len(archanaCSV')]))
       => cuisineAcc' = cuisineAcc]_vars

\* C7 witness: an unresolvable recipe row was read after a resolvable one,
\* and the accumulators hold the one observation only.
C7_Witness ==
  /\ Len(archanaCSV) = 2
  /\ ~Unresolvable(archanaCSV[1])
  /\ Unresolvable(archanaCSV[2])
  /\ legacyCSV = <<>> /\ manualJSON = <<>>
  /\ Cardinality(DOMAIN cuisineAcc) = 1
  /\ \A k \in DOMAIN cuisineAcc : cuisineAcc[k].dish_count = 1

PctFields ==
  {<<"pct_veg", "veg">>, <<"pct_sweet", "sweet">>, <<"pct_lentil_like", "lentil_like">>,
   <<"pct_red_meat_like", "red_meat_like">>, <<"pct_poultry", "poultry">>,
   <<"pct_fish", "fish">>, <<"pct_turmeric", "turmeric">>}

\* value * n = count, for a number value
IsQuotient(value, count, n) ==
  value.t \in {"num", "frac"} /\ NumOf(value) * n = count * DenOf(value)

\* C8: in a summary every percentage field is null exactly when dish_count
\* is 0 and is otherwise its count divided by dish_count.
C8_PercentFields ==
  fnCall.fn = "Summary" =>
    /\ fnCall.result.dish_count = fnCall.bucket.dish_count
    /\ \A f \in PctFields :
         /\ fnCall.result[f[1]] = Null <=> fnCall.bucket.dish_count = 0
         /\ fnCall.bucket.dish_count # 0 =>
              IsQuotient(fnCall.result[f[1]], fnCall.bucket[f[2]], fnCall.bucket.dish_count)

\* C8 witness: a summary of a bucket without dishes, all percentages null.
C8_Witness ==
  /\ fnCall.fn = "Summary"
  /\ fnCall.bucket.dish_count = 0
  /\ \A f \in PctFields : fnCall.result[f[1]] = Null

\* The inputs for which cagr is claimed to answer null.
CagrNullCase(v0, v1, years) ==
  \/ v0.t \notin {"num", "frac"}
  \/ v1.t \notin {"num", "frac"}
  \/ v0.n <= 0
  \/ (years.t \in {"num", "frac"} /\ years.n <= 0)
  \/ (years.t = "inf" /\ years.sign < 0)

\* 1 / years is an integer.
WholeReciprocal(years) ==
  years.t = "inf" \/ (years.t \in {"num", "frac"} /\ years.n = 1)

C10_RatePerYear ==
  pc # "cancer" =>
    \A k \in DOMAIN cancerByState : \A y \in Years :
      LET bucket == cancerByState[k]
          noRate == \/ bucket.incidence[y] = Null
                    \/ IsNullish(bucket.population)
                    \/ bucket.population = Num(0)
      IN /\ bucket.incidence_per_100k[y] = Null <=> noRate
         /\ ~noRate =>
              bucket.incidence_per_100k[y] =
                Frac(bucket.incidence[y].n * 100000, bucket.population.n)

\* C10 witness: a region with a null total in one year, a total of 0 in
\* another (rate 0) and a positive rate in a third.
C10_Witness ==
  /\ pc # "cancer"
  /\ \E k \in DOMAIN cancerByState :
       LET bucket == cancerByState[k]
       IN /\ bucket.incidence[2021] = Null /\ bucket.incidence_per_100k[2021] = Null
          /\ bucket.incidence[2020] = Num(0) /\ bucket.incidence_per_100k[2020] = Num(0)
          /\ bucket.incidence[2019] = Num(3)
          /\ bucket.incidence_per_100k[2019] = Frac(300000, bucket.population.n)

\* word occurs in text at some position, letters compared without regard to case.
ContainsNoCase(text, word) ==
  \E i \in 1..(Len(text) - Len(word) + 1) :
    \A k \in 1..Len(word) :
      LowerCh(SubSeq(text, i + k - 1, i + k - 1)) = SubSeq(word, k, k)

\* The diet the priority rules give: 'non' first, then 'egg', then 'veg'.
DietByRules(rawDiet) ==
  IF rawDiet \in {Undef, Null} THEN Null
  ELSE IF ContainsNoCase(rawDiet.s, "non") THEN Str("non-vegetarian")
  ELSE IF ContainsNoCase(rawDiet.s, "egg") THEN Str("non-vegetarian")
  ELSE IF ContainsNoCase(rawDiet.s, "veg") THEN Str("vegetarian")
  ELSE Null

\* C11: classifyDiet follows the priority rules 'non', 'egg', 'veg' on the
\* label without regard to case, answers unknown (null) for null, undefined,
\* the empty label and a label with none of the three, and never answers
\* vegetarian for a label that contains both 'non' and 'veg'.
C11_DietPriority ==
  fnCall.fn = "classifyDiet" =>
    /\ fnCall.result = DietByRules(fnCall.rawDiet)
    /\ fnCall.rawDiet \in {Undef, Null, Str("")} => fnCall.result = Null
    /\ (/\ fnCall.rawDiet \notin {Undef, Null}
        /\ ContainsNoCase(fnCall.rawDiet.s, "non")
        /\ ContainsNoCase(fnCall.rawDiet.s, "veg"))
         => fnCall.result = Str("non-vegetarian")

\* C11 witness: a label with both 'non' and 'veg', classified non-vegetarian.
C11_Witness ==
  /\ fnCall.fn = "classifyDiet"
  /\ fnCall.rawDiet = Str("High Protein Non Vegetarian")
  /\ fnCall.result = Str("non-vegetarian")

\* The elements of a sequence.
Range(seq) == {seq[i] : i \in DOMAIN seq}

\* The samples of data whose x and y are both finite numbers, in order.
RECURSIVE FiniteSamples(_)
FiniteSamples(data) ==
  IF data = <<>> THEN <<>>
  ELSE LET d == Head(data)
       IN (IF d.x.t \in {"num", "frac"} /\ d.y.t \in {"num", "frac"} THEN <<d>> ELSE <<>>)
          \o FiniteSamples(Tail(data))

\* C12: the regression answers null exactly when no sample has a finite x
\* and a finite y; the samples with a value that is not finite take no part
\* (the residuals name the finite samples only, and the answer is the one for
\* the finite samples alone); one finite sample is enough for an answer.
C12_NullIffNoValidSample ==
  fnCall.fn = "renderScatter" =>
    LET data == fnCall.data
        metrics == fnCall.result.metrics
        finite == FiniteSamples(data)
    IN /\ metrics = Null <=> finite = <<>>
       /\ metrics = Null <=> fnCall.result.container = "empty-state"
       /\ metrics # Null =>
            /\ Len(metrics.residuals) = Len(finite)
            /\ {e.state : e \in Range(metrics.residuals)} = {d.state : d \in Range(finite)}
            /\ metrics = renderScatter(finite).metrics

\* C12 witness: one finite sample among samples that are not finite, answered.
C12_Witness ==
  /\ fnCall.fn = "renderScatter"
  /\ Len(fnCall.data) = 3
  /\ Len(FiniteSamples(fnCall.data)) = 1
  /\ fnCall.result.metrics # Null
  /\ Len(fnCall.result.metrics.residuals) = 1

\* The line through samples p and q of different x: its slope and intercept.
LineSlope(p, q) == Over(Minus(q.y, p.y), Minus(q.x, p.x))
LineIntercept(p, q) == Minus(p.y, Times(LineSlope(p, q), p.x))

\* All samples of data have their x values of one decimal scale and their y
\* values of one decimal scale, so that sums and differences of them are exact.
SameScale(data) ==
  \A i, j \in DOMAIN data :
    /\ IsFiniteNum(data[i].x) /\ IsFiniteNum(data[j].x) => ExpOf(data[i].x) = ExpOf(data[j].x)
    /\ IsFiniteNum(data[i].y) /\ IsFiniteNum(data[j].y) => ExpOf(data[i].y) = ExpOf(data[j].y)

\* All samples of data are finite, of the same scale, and lie on the line
\* through p and q, which is neither vertical nor horizontal.
OnSlopedLine(data, p, q) ==
  /\ FiniteSamples(data) = data
  /\ SameScale(data)
  /\ p.x # q.x
  /\ LineSlope(p, q) # Num(0)
  /\ \A k \in DOMAIN data :
       data[k].y = Plus(Times(LineSlope(p, q), data[k].x), LineIntercept(p, q))

\* C13: for samples lying exactly on a line y = a*x + b with two different
\* x values and a # 0 the regression answers slope a, intercept b, r = 1 for
\* a > 0 and r = -1 for a < 0, and residual 0 for every sample; the samples
\* (A,1,2), (B,2,4), (C,3,6) give slope 2, intercept 0 and r 1.
C13_ExactLine ==
  fnCall.fn = "renderScatter" =>
    LET data == fnCall.data
        metrics == fnCall.result.metrics
    IN /\ \A i, j \in DOMAIN data :
            OnSlopedLine(data, data[i], data[j]) =>
              /\ metrics # Null
              /\ metrics.slope = LineSlope(data[i], data[j])
              /\ metrics.intercept = LineIntercept(data[i], data[j])
              /\ metrics.r = (IF LineSlope(data[i], data[j]).n > 0 THEN Num(1) ELSE Num(-1))
              /\ Len(metrics.residuals) = Len(data)
              /\ \A k \in DOMAIN metrics.residuals :
                   /\ metrics.residuals[k].residual = Num(0)
                   /\ metrics.residuals[k].predicted = metrics.residuals[k].actual
       /\ [k \in DOMAIN data |-> <<data[k].state, data[k].x, data[k].y>>]
            = <<(<<"A", Num(1), Num(2)>>), (<<"B", Num(2), Num(4)>>), (<<"C", Num(3), Num(6)>>)>>
          => /\ metrics.slope = Num(2)
             /\ metrics.intercept = Num(0)
             /\ metrics.r = Num(1)

\* Alphabetical order of two different ingredient names (lower-case letters
\* and single spaces; a space sorts before every letter).
AlphaRank(c) == CHOOSE i \in 1..27 : SubSeq(" abcdefghijklmnopqrstuvwxyz", i, i) = c

RECURSIVE AlphaBefore(_, _)
AlphaBefore(a, b) ==
  IF a = "" THEN b # ""
  ELSE IF b = "" THEN FALSE
  ELSE IF SubSeq(a, 1, 1) # SubSeq(b, 1, 1)
       THEN AlphaRank(SubSeq(a, 1, 1)) < AlphaRank(SubSeq(b, 1, 1))
       ELSE AlphaBefore(SubSeq(a, 2, Len(a)), SubSeq(b, 2, Len(b)))

\* C14: in every finalized summary the ingredient frequencies are listed by
\* count, largest first, and entries of equal count by name in ascending
\* alphabetical order, whatever the order the ingredients were first seen in.
C14_IngredientOrder ==
  Finalized =>
    \A r \in DOMAIN cuisineRows :
      LET stats == cuisineRows[r].ingredient_stats
      IN /\ \A i, j \in DOMAIN stats :
              i < j => \/ stats[i].v > stats[j].v
                       \/ (stats[i].v = stats[j].v /\ AlphaBefore(stats[i].k, stats[j].k))
         /\ {stats[i] : i \in DOMAIN stats}
              = {cuisineAcc[cuisineRows[r].state].ingredient_stats[i] :
                   i \in DOMAIN cuisineAcc[cuisineRows[r].state].ingredient_stats}

\* C14 witness: a region whose ingredients were first seen in another order
\* than the listed one, with a count of 2 ahead of three counts of 1.
C14_Witness ==
  /\ Finalized
  /\ \E r \in DOMAIN cuisineRows :
       LET stats == cuisineRows[r].ingredient_stats
           seen == cuisineAcc[cuisineRows[r].state].ingredient_stats
       IN /\ Len(stats) = 4
          /\ stats[1].v = 2 /\ stats[2].v = 1 /\ stats[3].v = 1 /\ stats[4].v = 1
          /\ seen[1].k # stats[1].k
          /\ \E i, j \in DOMAIN seen : i < j /\ AlphaBefore(seen[j].k, seen[i].k)
                                        /\ seen[i].v = seen[j].v

\* C15: a written file whose size exceeds 1,000,000 bytes fails the run with
\* an error that names the file and the size; the guard changes no written
\* collection (nothing is cut to fit); and a run that completes has found all
\* three files at or below the ceiling, which is less than one mebibyte.
C15_SizeGuard ==
  [][pc = "guard" =>
       LET last == statted'[Len(statted')]
       IN /\ UNCHANGED <<cancerRows, cuisineRows, joinedRows, written, viewVars>>
          /\ Len(statted') = Len(statted) + 1
          /\ last.size > 1000000 =>
               /\ pc' = "failed"
               /\ error' = Str(last.file \o " too large: " \o ToString(last.size) \o " bytes")
          /\ last.size <= 1000000 => pc' \in {"guard", "done"} /\ error' = Null
          /\ pc' = "done" =>
               /\ {statted'[i].file : i \in DOMAIN statted'} = written
               /\ written = {"cancer_by_state.json", "cuisine_by_state.json",
                             "joined_state_metrics.json"}
               /\ \A i \in DOMAIN statted' :
                    statted'[i].size <= 1000000 /\ statted'[i].size < 1024 * 1024]_vars

\* C15 witness: the third file is found one byte over the ceiling and the
\* run has failed naming it.
C15_Witness ==
  /\ pc = "failed"
  /\ Len(statted) = 3
  /\ statted[3].size = 1000001
  /\ error = Str("joined_state_metrics.json too large: 1000001 bytes")

\* The call of addObservation the step makes, if it reads a recipe row.
StepCall ==
  IF archanaCSV' # archanaCSV THEN ArchanaCalls[archanaCSV'[Len(archanaCSV')]]
  ELSE IF legacyCSV' # legacyCSV THEN LegacyCalls[legacyCSV'[Len(legacyCSV')]]
  ELSE IF manualJSON' # manualJSON THEN ManualCalls[manualJSON'[Len(manualJSON')]]
  ELSE NoCall

\* The region of the step's call.
StepRegion == AliasKey(StepCall.stateRaw)

\* The step makes a call that addObservation accepts.
AcceptedCall == StepCall.call /\ StepRegion \notin {"", "-1"}

\* A bucket no observation has reached yet.
EmptyBucket(state) ==
  [state |-> state, dish_count |-> 0, veg |-> 0, sweet |-> 0,
   prep_sum |-> Num(0), prep_n |-> 0, cook_sum |-> Num(0), cook_n |-> 0,
   lentil_like |-> 0, red_meat_like |-> 0, poultry |-> 0, fish |-> 0, turmeric |-> 0,
   ingredient_stats |-> <<>>]

\* The region's bucket before and after the step.
BucketBefore ==
  IF StepRegion \in DOMAIN cuisineAcc THEN cuisineAcc[StepRegion] ELSE EmptyBucket(StepRegion)
BucketAfter == cuisineAcc'[StepRegion]

\* Some token contains a term of the non-vegetarian evidence list.
NonVegEvidence(tokens) ==
  \E i \in DOMAIN tokens : \E k \in DOMAIN NON_VEG_TERMS :
    ContainsNoCase(tokens[i], NON_VEG_TERMS[k])

\* C16: an accepted observation adds 1 to dish_count, and adds 1 to the
\* vegetarian count exactly when its diet is vegetarian and none of its
\* tokens contains a non-vegetarian term; otherwise the vegetarian count
\* stays (vegetarian tag with such a token, non-vegetarian or unknown diet).
C16_VegNeedsNoEvidence ==
  [][AcceptedCall =>
       /\ BucketAfter.dish_count = BucketBefore.dish_count + 1
       /\ BucketAfter.veg =
            BucketBefore.veg
            + (IF /\ StepCall.details.diet = Str("vegetarian")
                  /\ ~NonVegEvidence(StepCall.details.tokens)
               THEN 1 ELSE 0)]_vars

\* C16 witness: a dish tagged vegetarian that lists egg was counted as a dish
\* of Punjab but not as a vegetarian one.
C16_Witness ==
  /\ Len(archanaCSV) = 1
  /\ archanaCSV[1].diet = Str("Vegetarian")
  /\ ArchanaCalls[archanaCSV[1]].call
  /\ NonVegEvidence(ArchanaCalls[archanaCSV[1]].details.tokens)
  /\ legacyCSV = <<>> /\ manualJSON = <<>>
  /\ "Punjab" \in DOMAIN cuisineAcc
  /\ cuisineAcc["Punjab"].dish_count = 1
  /\ cuisineAcc["Punjab"].veg = 0

\* The frequency an ingredient map gives a token (0 when it has none).
FrequencyIn(stats, token) ==
  IF \E i \in DOMAIN stats : stats[i].k = token
  THEN stats[CHOOSE i \in DOMAIN stats : stats[i].k = token].v
  ELSE 0

CategoryCounters == {"lentil_like", "red_meat_like", "poultry", "fish", "turmeric"}

\* C17: one accepted observation raises the frequency of each of its distinct
\* tokens by exactly 1, however often the token is repeated in it, leaves the
\* frequency of every other token alone, and raises each of the five category
\* counters by at most 1.
C17_TokensCountedOnce ==
  [][AcceptedCall =>
       LET tokens == Range(StepCall.details.tokens)
           before == BucketBefore.ingredient_stats
           after == BucketAfter.ingredient_stats
       IN /\ \A t \in tokens : FrequencyIn(after, t) = FrequencyIn(before, t) + 1
          /\ \A i \in DOMAIN before :
               before[i].k \notin tokens => FrequencyIn(after, before[i].k) = before[i].v
          /\ {after[i].k : i \in DOMAIN after} = {before[i].k : i \in DOMAIN before} \cup tokens
          /\ Len(after) = Cardinality({after[i].k : i \in DOMAIN after})
          /\ \A c \in CategoryCounters :
               BucketAfter[c] - BucketBefore[c] \in {0, 1}]_vars

\* C17 witness: two dishes of Goa, each naming chicken twice, leave chicken
\* with frequency 2 and the poultry counter at 2.
C17_Witness ==
  /\ Len(legacyCSV) = 2
  /\ archanaCSV = <<>> /\ manualJSON = <<>>
  /\ \A i \in 1..2 :
       LegacyCalls[legacyCSV[i]].call
       /\ LegacyCalls[legacyCSV[i]].details.tokens = <<"chicken", "coconut", "chicken">>
  /\ "Goa" \in DOMAIN cuisineAcc
  /\ FrequencyIn(cuisineAcc["Goa"].ingredient_stats, "chicken") = 2
  /\ cuisineAcc["Goa"].poultry = 2

\* The accepted calls made so far for region key, each with its details.
DetailedCallsTo(key) ==
  {<<"archana", i, ArchanaCalls[archanaCSV[i]].details>> :
     i \in {j \in DOMAIN archanaCSV :
              ArchanaCalls[archanaCSV[j]].call
              /\ AliasKey(ArchanaCalls[archanaCSV[j]].stateRaw) = key}}
  \cup {<<"legacy", i, LegacyCalls[legacyCSV[i]].details>> :
          i \in {j \in DOMAIN legacyCSV :
                   LegacyCalls[legacyCSV[j]].call
                   /\ AliasKey(LegacyCalls[legacyCSV[j]].stateRaw) = key}}
  \cup {<<"manual", i, ManualCalls[manualJSON[i]].details>> :
          i \in {j \in DOMAIN manualJSON :
                   ManualCalls[manualJSON[j]].call
                   /\ AliasKey(ManualCalls[manualJSON[j]].stateRaw) = key}}

\* The sum of field f of the details of a set of calls.
RECURSIVE TimingSum(_, _)
TimingSum(calls, f) ==
  IF calls = {} THEN 0
  ELSE LET c == CHOOSE x \in calls : TRUE
       IN c[3][f].n + TimingSum(calls \ {c}, f)

\* The average the observations of a region give for timing f: the values
\* that are present, summed and divided by their number; null for none.
AverageOf(key, f) ==
  LET timed == {c \in DetailedCallsTo(key) : c[3][f] # Null}
  IN IF timed = {} THEN Null ELSE Frac(TimingSum(timed, f), Cardinality(timed))

\* C18: in the finalized output a region's avg_prep_time is the sum of the
\* prep values present in its observations divided by the number of those
\* observations, and null exactly when none of them has a prep value; the
\* observations without one still count in dish_count; likewise
\* avg_cook_time.
C18_AveragesSkipMissing ==
  Finalized =>
    \A r \in DOMAIN cuisineRows :
      LET key == cuisineRows[r].state
      IN /\ cuisineRows[r].avg_prep_time = AverageOf(key, "prep")
         /\ cuisineRows[r].avg_cook_time = AverageOf(key, "cook")
         /\ cuisineRows[r].dish_count = Cardinality(DetailedCallsTo(key))

\* C18 witness: Odisha with two dishes, one without a prep time: the average
\* prep time is that of the other dish alone, the average cook time that of
\* both.
C18_Witness ==
  /\ Finalized
  /\ \E r \in DOMAIN cuisineRows :
       /\ cuisineRows[r].state = "Odisha"
       /\ cuisineRows[r].dish_count = 2
       /\ Cardinality({c \in DetailedCallsTo("Odisha") : c[3].prep = Null}) = 1
       /\ cuisineRows[r].avg_prep_time = Num(10)
       /\ cuisineRows[r].avg_cook_time = Frac(75, 2)

\* C19: an accepted observation for region R changes R's accumulator only:
\* the accumulator of every other region keeps every field, its ingredient
\* frequencies included, and no accumulator but R's is created or removed.
C19_OtherRegionsUntouched ==
  [][AcceptedCall =>
       /\ DOMAIN cuisineAcc' = DOMAIN cuisineAcc \cup {StepRegion}
       /\ \A k \in DOMAIN cuisineAcc \ {StepRegion} : cuisineAcc'[k] = cuisineAcc[k]
       /\ cuisineAcc'[StepRegion] # BucketBefore
       /\ cuisineAcc'[StepRegion].state = StepRegion]_vars

\* C19 witness: after dishes of Goa, Odisha and Goa again, Odisha still holds
\* its one dish with its own two ingredients, and Goa holds two.
C19_Witness ==
  /\ Len(legacyCSV) = 3
  /\ DOMAIN cuisineAcc = {"Goa", "Odisha"}
  /\ \A i \in 1..3 : LegacyCalls[legacyCSV[i]].call
  /\ AliasKey(LegacyCalls[legacyCSV[1]].stateRaw) = "Goa"
  /\ AliasKey(LegacyCalls[legacyCSV[2]].stateRaw) = "Odisha"
  /\ AliasKey(LegacyCalls[legacyCSV[3]].stateRaw) = "Goa"
  /\ cuisineAcc["Odisha"].dish_count = 1
  /\ Len(cuisineAcc["Odisha"].ingredient_stats) = 2
  /\ cuisineAcc["Goa"].dish_count = 2

\* The rules of CUISINE_TO_STATE, by position, whose pattern matches text.
MatchingRules(text) ==
  {k \in DOMAIN CUISINE_TO_STATE : PatternTest(CUISINE_TO_STATE[k], text)}

\* C20: inferStateFromText answers the region of the earliest rule of
\* CUISINE_TO_STATE that matches the normalized text, and null for a text that
\* is null, undefined, empty, empty once normalized, or matched by no rule; a
\* text matched by rules of two regions gets the region of the earlier rule
\* ('Kathiyawadi': Arunachal Pradesh by 'adi', ahead of Gujarat).
C20_FirstRuleWins ==
  fnCall.fn = "inferStateFromText" =>
    LET rawText == fnCall.rawText
        normalized == IF rawText \in {Undef, Null} THEN "" ELSE normalizeStateText(rawText.s)
        matching == MatchingRules(normalized)
    IN /\ fnCall.result = Null <=> (normalized = "" \/ matching = {})
       /\ fnCall.result # Null =>
            \E k \in matching :
              /\ \A j \in matching : k <= j
              /\ fnCall.result = Str(CUISINE_TO_STATE[k].state)
       /\ rawText = Str("Kathiyawadi") => fnCall.result = Str("Arunachal Pradesh")
       /\ rawText = Str("Hyderabadi") => fnCall.result = Str("Telangana")
       /\ rawText = Str("Konkani") => fnCall.result = Str("Maharashtra")
       /\ rawText = Str("Malvani Goan") => fnCall.result = Str("Goa")
       /\ rawText = Str("Nagar Haveli")
            => fnCall.result = Str("Dadra and Nagar Haveli and Daman and Diu")
       /\ rawText \in {Str("Recipes"), Str(" 123 "), Str("Continental")}
            => fnCall.result = Null

\* C20 witness: a label matched by the rules of two regions, answered with the
\* region of the earlier rule.
C20_Witness ==
  /\ fnCall.fn = "inferStateFromText"
  /\ fnCall.rawText = Str("Kathiyawadi")
  /\ Cardinality({CUISINE_TO_STATE[k].state : k \in MatchingRules("kathiyawadi")}) = 2
  /\ fnCall.result = Str("Arunachal Pradesh")

\* word occurs in text at some position, letter for letter.
ContainsExactly(text, word) ==
  \E i \in 1..(Len(text) - Len(word) + 1) : SubSeq(text, i, i + Len(word) - 1) = word

\* A keyword of more than one word.
IsMultiWord(keyword) == \E i \in 1..Len(keyword) : SubSeq(keyword, i, i) = " "

\* The four grounds for calling a dish sweet.
SweetByCourse(course) ==
  /\ course \notin {Undef, Null}
  /\ (ContainsNoCase(course.s, "dessert") \/ ContainsNoCase(course.s, "sweet"))
SweetByName(name) ==
  \E k \in DOMAIN SWEET_NAME_KEYWORDS : ContainsNoCase(name, SWEET_NAME_KEYWORDS[k])
SweetByRawText(raw) ==
  \E k \in DOMAIN SWEET_INGREDIENT_KEYWORDS : ContainsNoCase(raw, SWEET_INGREDIENT_KEYWORDS[k])
SweetByToken(tokens) ==
  \E i \in DOMAIN tokens : \E k \in DOMAIN SWEET_INGREDIENT_KEYWORDS :
    /\ ~IsMultiWord(SWEET_INGREDIENT_KEYWORDS[k])
    /\ ContainsExactly(tokens[i], SWEET_INGREDIENT_KEYWORDS[k])

\* C21: detectSweetness answers true exactly when the course contains
\* 'dessert' or 'sweet', or the name contains a sweet-dish keyword, or the raw
\* ingredient text contains a sweet-ingredient keyword, or a token contains a
\* single-word sweet-ingredient keyword; a multi-word keyword found in a
\* token only ('condensed milk' from 'Condensed-Milk') does not count.
C21_SweetGrounds ==
  fnCall.fn = "detectSweetness" =>
    /\ fnCall.result <=> \/ SweetByCourse(fnCall.course)
                         \/ SweetByName(fnCall.name)
                         \/ SweetByRawText(fnCall.rawIngredients)
                         \/ SweetByToken(fnCall.tokens)
    /\ (/\ fnCall.name = "Dal Fry"
        /\ fnCall.course = Str("Main Course")
        /\ fnCall.rawIngredients = "Condensed-Milk, Rice")
         => ~fnCall.result

\* C21 witness: a token holds the multi-word keyword 'condensed milk', the raw
\* text does not, nothing else speaks for a sweet dish, and the answer is false.
C21_Witness ==
  /\ fnCall.fn = "detectSweetness"
  /\ \E i \in DOMAIN fnCall.tokens : ContainsExactly(fnCall.tokens[i], "condensed milk")
  /\ ~ContainsNoCase(fnCall.rawIngredients, "condensed milk")
  /\ ~SweetByCourse(fnCall.course)
  /\ ~SweetByName(fnCall.name)
  /\ fnCall.result = FALSE

\* The mean of the y values of finite samples of one scale, in exact
\* arithmetic.
RECURSIVE ExactSum(_)
ExactSum(values) ==
  IF values = <<>> THEN Num(0)
  ELSE LET rest == ExactSum(Tail(values))
           v == Mant(Head(values))
       IN Frac(NumOf(v) * DenOf(rest) + NumOf(rest) * DenOf(v), DenOf(v) * DenOf(rest))

ExactMean(values) ==
  WithExp(Quot(ExactSum(values), Num(Len(values))), ExpOf(values[1]))

\* v is a finite number, or a quotient by a square root that is not 0.
IsNumberValue(v) == v.t \in {"num", "frac", "quot"}

\* C22: renderScatter never divides by zero and never returns a non-number:
\* slope, intercept and r of every non-null result are finite numbers; when
\* all valid samples have the same x (a single sample included) the slope is
\* 0 and the intercept is the mean of y; when all x or all y are equal r is 0.
C22_FitNeverDividesByZero ==
  fnCall.fn = "renderScatter" /\ fnCall.result.metrics # Null =>
    LET valid == FiniteSamples(fnCall.data)
        metrics == fnCall.result.metrics
        sameX == \A i, j \in DOMAIN valid : valid[i].x = valid[j].x
        sameY == \A i, j \in DOMAIN valid : valid[i].y = valid[j].y
    IN /\ IsNumberValue(metrics.slope)
       /\ IsNumberValue(metrics.intercept)
       /\ IsNumberValue(metrics.r)
       /\ sameX => /\ metrics.slope = Num(0)
                   /\ metrics.intercept = ExactMean([k \in DOMAIN valid |-> valid[k].y])
       /\ sameX \/ sameY => metrics.r = Num(0)

\* |a| >= |b| for two finite numbers
NotSmallerAbs(a, b) ==
  IF b = Num(0) THEN TRUE
  ELSE IF a = Num(0) THEN FALSE
  ELSE IF ExpOf(a) # ExpOf(b) THEN ExpOf(a) > ExpOf(b)
  ELSE Abs(NumOf(a)) * DenOf(b) >= Abs(NumOf(b)) * DenOf(a)

\* The entry e of the residual list is the one of sample d under the fitted
\* line.
EntryOfSample(e, d, metrics) ==
  /\ e.state = d.state
  /\ e.actual = d.y
  /\ e.predicted = Plus(Times(metrics.slope, d.x), metrics.intercept)
  /\ e.residual = Minus(e.actual, e.predicted)

RecordsWithBoth(data, selection, cancerKey) ==
  LET shares == buildIngredientUniverse(data.cuisine).stateShares
  IN {i \in DOMAIN data.joined :
        /\ getCuisineValue(data.joined[i].cuisine, selection, shares) \notin {Null, Undef}
        /\ data.joined[i].cancer # Null
        /\ data.joined[i].cancer[cancerKey] \notin {Null, Undef}}

\* The square of the r fitted to the records of a pair.
SquareOfPairR(data, selection, cancerKey) ==
  LET shares == buildIngredientUniverse(data.cuisine).stateShares
      points == [i \in RecordsWithBoth(data, selection, cancerKey) |->
                   [state |-> data.joined[i].state,
                    x |-> getCuisineValue(data.joined[i].cuisine, selection, shares),
                    y |-> data.joined[i].cancer[cancerKey]]]
      ordered == [k \in 1..Cardinality(DOMAIN points) |->
                    points[CHOOSE i \in DOMAIN points :
                             Cardinality({j \in DOMAIN points : j <= i}) = k]]
  IN SquareOfR(renderScatter(ordered).metrics.r)

\* C24: every combo returned by computeInterestingCombos was built from at
\* least 6 joined records in which both values are non-null, and its sample
\* is that number of records; the list is ordered by non-increasing |r|, has
\* at most 18 entries, and no pair of at least 6 such records that was left
\* out has a larger |r| than an entry.
C24_CombosOfSixSamples ==
  fnCall.fn = "computeInterestingCombos" =>
    LET data == fnCall.data
        result == fnCall.result
        candidates == Range(CuisineCandidates(buildIngredientUniverse(data.cuisine)))
        listed == {<<result[i].cuisine, result[i].cancer>> : i \in DOMAIN result}
    IN /\ Len(result) <= 18
       /\ \A i \in DOMAIN result :
            /\ result[i].sample
                 = Cardinality(RecordsWithBoth(data, result[i].cuisine, result[i].cancer))
            /\ result[i].sample >= 6
       /\ \A i \in 1..(Len(result) - 1) :
            NotSmallerAbs(SquareOfR(result[i].r), SquareOfR(result[i + 1].r))
       /\ \A selection \in candidates : \A key \in Range(cancerMetrics) :
            /\ <<selection, key>> \notin listed
            /\ Cardinality(RecordsWithBoth(data, selection, key)) >= 6
            => Len(result) = 18
               /\ \A left \in {SquareOfPairR(data, selection, key)} :
                    NotSmallerAbs(SquareOfR(result[18].r), left)

\* C24 witness: more than 18 pairs have 6 records or more and a pair of an
\* ingredient is among the 18 listed; the list holds combos of 6 and of 7
\* records, the first with a larger |r| than the last, and a pair with fewer
\* than 6 records is not listed.
C24_Witness ==
  /\ fnCall.fn = "computeInterestingCombos"
  /\ LET data == fnCall.data
         result == fnCall.result
         listed == {<<result[i].cuisine, result[i].cancer>> : i \in DOMAIN result}
     IN /\ Len(result) = 18
        /\ \E i, j \in DOMAIN result : result[i].sample = 6 /\ result[j].sample = 7
        /\ \E i \in DOMAIN result : result[i].cuisine.kind = "ingredient"
        /\ ~NotSmallerAbs(SquareOfR(result[18].r), SquareOfR(result[1].r))
        /\ \E key \in Range(cancerMetrics) :
             /\ Cardinality(RecordsWithBoth(data, Preset("avg_prep_time"), key)) \in 1..5
             /\ <<Preset("avg_prep_time"), key>> \notin listed
        /\ \E key \in Range(cancerMetrics) :
             /\ Cardinality(RecordsWithBoth(data, Preset("pct_poultry"), key)) >= 6
             /\ <<Preset("pct_poultry"), key>> \notin listed

\* The rank of a character in the alphabet, upper and lower case alike.
KeyRank(c) ==
  LET alphabet == " &-0123456789abcdefghijklmnopqrstuvwxyz"
      lower == LowerCh(c)
  IN IF \E i \in 1..Len(alphabet) : SubSeq(alphabet, i, i) = lower
     THEN CHOOSE i \in 1..Len(alphabet) : SubSeq(alphabet, i, i) = lower
     ELSE 0

\* Key a comes before key b in alphabetical order; keys that differ in case
\* only have the lower case first.
RECURSIVE KeyBefore(_, _)
KeyBefore(a, b) ==
  IF ToLowerCase(a) = ToLowerCase(b)
  THEN a # b /\ LET i == CHOOSE k \in 1..Len(a) :
                          SubSeq(a, k, k) # SubSeq(b, k, k)
                          /\ \A j \in 1..(k - 1) : SubSeq(a, j, j) = SubSeq(b, j, j)
                IN SubSeq(a, i, i) \in LowerSet
  ELSE IF a = "" THEN TRUE
  ELSE IF b = "" THEN FALSE
  ELSE IF KeyRank(SubSeq(a, 1, 1)) # KeyRank(SubSeq(b, 1, 1))
       THEN KeyRank(SubSeq(a, 1, 1)) < KeyRank(SubSeq(b, 1, 1))
       ELSE KeyBefore(SubSeq(a, 2, Len(a)), SubSeq(b, 2, Len(b)))

\* The region keys of the incidence rows read, in the order first seen.
RECURSIVE FirstSeen(_, _)
FirstSeen(seen, rows) ==
  IF rows = <<>> THEN seen
  ELSE LET cell == Head(rows).State_UT
           key == IF cell.t = "str" THEN AliasKey(cell.s) ELSE ""
       IN FirstSeen(IF key \in Range(seen) THEN seen ELSE Append(seen, key), Tail(rows))

\* C25: the joined output is ordered by region key, strictly ascending, so
\* no key appears twice, whatever the order in which the regions were first
\* seen in the incidence and recipe inputs.
C25_JoinedAscending ==
  pc = "guard" =>
    /\ \A i \in 1..(Len(joinedRows) - 1) :
         KeyBefore(joinedRows[i].state, joinedRows[i + 1].state)
    /\ \A i, j \in DOMAIN joinedRows : i < j => joinedRows[i].state # joinedRows[j].state

\* C25 witness: the incidence rows name two regions in descending order and a
\* region first seen in the recipes sorts before a region of the incidence
\* rows; the joined output lists all of them ascending.
C25_Witness ==
  /\ pc = "guard"
  /\ Len(joinedRows) >= 3
  /\ LET seen == FirstSeen(<<>>, cancerCSV)
     IN /\ Len(seen) >= 2
        /\ KeyBefore(seen[2], seen[1])
        /\ \E i, j \in DOMAIN joinedRows :
             /\ i < j
             /\ joinedRows[i].cancer = Null
             /\ joinedRows[j].state = seen[2]
        /\ \E i, j \in DOMAIN joinedRows :
             i < j /\ joinedRows[i].state = seen[2] /\ joinedRows[j].state = seen[1]

\* The counters of an accumulator that count dishes of a kind.
DishCounters ==
  {"veg", "sweet", "lentil_like", "red_meat_like", "poultry", "fish", "turmeric",
   "prep_n", "cook_n"}

PercentageFields ==
  {"pct_veg", "pct_sweet", "pct_lentil_like", "pct_red_meat_like", "pct_poultry",
   "pct_fish", "pct_turmeric"}

\* C26: after any sequence of addObservation calls every accumulator has
\* dish_count >= 1, each of veg, sweet, lentil_like, red_meat_like, poultry,
\* fish, turmeric, prep_n and cook_n between 0 and dish_count, and every
\* ingredient frequency between 1 and dish_count; every percentage of a
\* finalized summary is in [0, 1].
C26_CountersWithinDishCount ==
  /\ \A key \in DOMAIN cuisineAcc :
       LET bucket == cuisineAcc[key]
       IN /\ bucket.dish_count >= 1
          /\ \A f \in DishCounters : 0 <= bucket[f] /\ bucket[f] <= bucket.dish_count
          /\ \A i \in DOMAIN bucket.ingredient_stats :
               /\ 1 <= bucket.ingredient_stats[i].v
               /\ bucket.ingredient_stats[i].v <= bucket.dish_count
  /\ \A i \in DOMAIN cuisineRows : \A f \in PercentageFields :
       /\ cuisineRows[i][f].t \in {"num", "frac"}
       /\ 0 <= NumOf(cuisineRows[i][f])
       /\ NumOf(cuisineRows[i][f]) <= DenOf(cuisineRows[i][f])

\* C26 witness: a finalized region of two dishes or more with a counter
\* strictly between 0 and dish_count, an ingredient of every dish and an
\* ingredient of one dish only; one of its shares is strictly between 0 and
\* 1.
C26_Witness ==
  /\ Finalized
  /\ \E key \in DOMAIN cuisineAcc :
       LET bucket == cuisineAcc[key]
       IN /\ bucket.dish_count >= 2
          /\ \E f \in DishCounters : 0 < bucket[f] /\ bucket[f] < bucket.dish_count
          /\ \E i \in DOMAIN bucket.ingredient_stats :
               bucket.ingredient_stats[i].v = bucket.dish_count
          /\ \E i \in DOMAIN bucket.ingredient_stats : bucket.ingredient_stats[i].v = 1
          /\ \E i \in DOMAIN cuisineRows :
               /\ cuisineRows[i].state = key
               /\ \E f \in PercentageFields : cuisineRows[i][f].t = "frac"

\* C27: a region gets its accumulator only in a step that makes an accepted
\* observation for that region, and the new accumulator leaves the step
\* with dish_count 1; no step removes an accumulator.  So every accumulator
\* has at least one dish, and every summary row of the run has dish_count
\* >= 1 and a number, never null, in each percentage field.
C27_NoEmptyAccumulator ==
  /\ [][/\ DOMAIN cuisineAcc \subseteq DOMAIN cuisineAcc'
        /\ \A key \in DOMAIN cuisineAcc' \ DOMAIN cuisineAcc :
             /\ AcceptedCall
             /\ key = StepRegion
             /\ cuisineAcc'[key].dish_count = 1]_vars
  /\ [](/\ \A key \in DOMAIN cuisineAcc : cuisineAcc[key].dish_count >= 1
        /\ \A i \in DOMAIN cuisineRows :
             /\ cuisineRows[i].dish_count >= 1
             /\ \A f \in PercentageFields : cuisineRows[i][f] # Null)

\* C27 witness: a finalized run in which a call with an ignored region was
\* made, the regions of the accumulator are the accepted regions, and a
\* region of a single dish has a vegetarian share of 0, not null.
C27_Witness ==
  /\ Finalized
  /\ \E c \in CallsMade : AliasKey(c[3]) \in {"", "-1"}
  /\ DOMAIN cuisineAcc = CalledKeys
  /\ \E i \in DOMAIN cuisineRows :
       /\ cuisineRows[i].dish_count = 1
       /\ cuisineRows[i].pct_veg = Num(0)
       /\ cuisineRows[i].pct_sweet # Null

\* The list of entries in the order perm.
Reordered(entries, perm) == [i \in DOMAIN entries |-> entries[perm[i]]]

\* C28: the finalized cuisine rows of a list of observations are those of
\* every reordering of the list: same regions in the same row order, same
\* dish_count, shares and averages, same ingredient frequencies in the same
\* order.
C28_OrderIndependent ==
  fnCall.fn = "aggregate" =>
    \A perm \in Permutations(DOMAIN fnCall.entries) :
      Aggregate(Reordered(fnCall.entries, perm)) = fnCall.result

\* The targets of the alias table.
AliasTargets == {normMap[k] : k \in DOMAIN normMap}

\* C29: norm(norm(s)) = norm(s); an alias target is returned as it is; the
\* result is a string without leading or trailing white space; a trimmed
\* string that is no key of the alias table is returned unchanged.
C29_NormIdempotent ==
  fnCall.fn = "norm" =>
    /\ fnCall.again = fnCall.result
    /\ fnCall.s \in AliasTargets => fnCall.result = Str(fnCall.s)
    /\ fnCall.result.t = "str"
    /\ fnCall.result.t = "str" => Trim(fnCall.result.s) = fnCall.result.s
    /\ Trim(fnCall.s) \notin DOMAIN normMap => fnCall.result = Str(Trim(fnCall.s))

\* The cuisine metric the controls select now.
SelectedNow ==
  getSelectedCuisineMetric(cuisineSelect, ingredientInput, ingredientUniverse.ingredientInfos)

\* The joined records whose cuisine value and cancer value under the given
\* selection are both numbers, neither null nor infinite.
RecordsWithFiniteValues(selection, cancerKey) ==
  IF selection = Null THEN {}
  ELSE {i \in DOMAIN appData.joined :
          /\ IsFiniteNum(getCuisineValue(appData.joined[i].cuisine, selection,
                                         ingredientUniverse.stateShares))
          /\ IsFiniteNum(CancerValue(appData.joined[i], cancerKey))}

\* C30: in the rendered compare view residualMap and residualInfo have the
\* same keys, namely the regions of the joined data whose cuisine value and
\* cancer value under the selection of the last update() are both non-null
\* and finite (none when no cuisine metric was resolved), and each entry
\* holds the values of that selection; every step that runs update() leaves
\* the selection of the controls as the selection of the last update().
C30_ResidualMapsCurrent ==
  /\ [](Rendered =>
         \A records \in {RecordsWithFiniteValues(lastCuisineMetric, lastCancerMetric)} :
            /\ DOMAIN residualMap = DOMAIN residualInfo
            /\ DOMAIN residualMap = {appData.joined[i].state : i \in records}
            /\ \A i \in records :
                 LET entry == appData.joined[i]
                     info == residualInfo[entry.state]
                 IN /\ info.cuisine = getCuisineValue(entry.cuisine, lastCuisineMetric,
                                                      ingredientUniverse.stateShares)
                    /\ info.actual = CancerValue(entry, lastCancerMetric)
                    /\ residualMap[entry.state] = info.residual)
  /\ [][OnIngredientInput
         \/ /\ lastCancerMetric' = cancerSelect'
            /\ \E select \in {cuisineSelect'}, input \in {ingredientInput'},
                  list \in {ingredientUniverse'} :
                 lastCuisineMetric' =
                   getSelectedCuisineMetric(select, input, list.ingredientInfos)]_vars

\* C30 witness: after an update for an ingredient selection the maps hold
\* some regions but not the region whose rate is infinite, although both of
\* its values are non-null.
C30_Witness ==
  /\ Rendered
  /\ lastCuisineMetric # Null
  /\ lastCuisineMetric.kind = "ingredient"
  /\ lastCuisineMetric = SelectedNow
  /\ lastCancerMetric = cancerSelect
  /\ DOMAIN residualMap # {}
  /\ \E i \in DOMAIN appData.joined :
       /\ appData.joined[i].state \notin DOMAIN residualMap
       /\ CancerValue(appData.joined[i], lastCancerMetric) = Inf(1)
       /\ getCuisineValue(appData.joined[i].cuisine, lastCuisineMetric,
                          ingredientUniverse.stateShares) # Null

====
